---- MODULE Spec2Model ----
(***************************************************************************)
(* Model of the astro-feedback REST API: the relational store (Websites,   *)
(* FeedbackCategories, Feedback, FeedbackVotes, FeedbackComments,          *)
(* AnalyticsEvents) and the request handlers that read and write it.       *)
(* The vote handlers are modelled one database statement per step, so that *)
(* overlapping requests interleave exactly as awaited statements do.       *)
(***************************************************************************)
EXTENDS Integers, FiniteSets, Sequences, TLC

VARIABLES websites, categories, feedback, votes, comments, analytics, admins, now, req, last, started

vars == <<websites, categories, feedback, votes, comments, analytics, admins, now, req, last, started>>

(* ---------------------------- bounds ----------------------------------- *)

\* total number of requests started in one behaviour
MaxOps == 3

\* largest number of Feedback rows the store holds
MaxFeedback == 3

\* largest number of FeedbackCategories rows the store holds
MaxCategories == 3

\* largest number of FeedbackComments rows the store holds
MaxComments == 1

\* latest minute the clock reaches
MaxTime == 2

\* largest number of Websites rows the store holds
MaxWebsites == 3

(* ------------------------- value universes ----------------------------- *)

WebsiteIds == {1, 2}

NoWebsite == 0

NoKey == "nokey"

ApiKeys == {"keyA", "keyB"}

NoEmail == "noemail"

Emails == {"e1", "e2"}

IPs == {"p1", "p2"}

VoteTypes == {"up", "down"}

\* a vote body that is JSON but fails voteSchema
BadBody == "bad"

\* request bodies: JSON that passes the schema, JSON that fails it, and text
\* that request.json() cannot parse
ValidBody == "valid"

InvalidBody == "invalid"

MalformedBody == "malformed"

BodyKinds == {ValidBody, InvalidBody, MalformedBody}

Reqs == {"r1", "r2"}

NoRow == [id |-> 0]

NoFb == [websiteId |-> 0]

(* --------------------------- the tables -------------------------------- *)

\* db/config.ts Websites: id -> [domain, apiKey, isActive, settings.rateLimit]; website 1 is
\* active and rate limited, website 2 has been deactivated and has no settings
NoRateLimit == [maxSubmissions |-> 0, windowMinutes |-> 0]

InitWebsites == [w \in WebsiteIds |->
                    [domain |-> IF w = 1 THEN "d1" ELSE "d2",
                     apiKey |-> IF w = 1 THEN "keyA" ELSE "keyB",
                     isActive |-> (w = 1),
                     rateLimit |-> IF w = 1 THEN [maxSubmissions |-> 2, windowMinutes |-> 1]
                                   ELSE NoRateLimit]]

\* db/config.ts FeedbackCategories: one category per website
InitCategories == {[id |-> 1, websiteId |-> 1, slug |-> "s1", isActive |-> TRUE],
                   [id |-> 2, websiteId |-> 2, slug |-> "s1", isActive |-> TRUE]}

\* the row POST /api/feedback inserts: forced status, priority, visibility, zeroed counters
NewFeedbackRow(websiteId, categoryId, type, ipAddress, createdAt) ==
    [websiteId |-> websiteId, categoryId |-> categoryId, type |-> type,
     status |-> "new", priority |-> "medium", ipAddress |-> ipAddress,
     isPublic |-> FALSE, upvotes |-> 0, downvotes |-> 0, createdAt |-> createdAt]

\* db/config.ts Feedback: id -> row; one submitted item per website
InitFeedback == [f \in {1, 2} |-> NewFeedbackRow(f, 0, "bug", "p1", 0)]

\* db/config.ts AdminUsers: id -> [isActive]; admins 1 and 2 are active, admin 3
\* has been deactivated
InitAdmins == [a \in {1, 2, 3} |-> [isActive |-> (a # 3)]]

\* next primary key of a table whose ids are ids: SQLite rowid = max + 1
NextId(ids) == IF ids = {} THEN 1 ELSE (CHOOSE m \in ids : \A i \in ids : i <= m) + 1

(* ------------------------- shared helpers ------------------------------ *)

\* verifyApiKey: the website whose id and key match, unless inactive
verifyApiKey_ignoreActive(websiteId, apiKey) ==
    IF websiteId \in DOMAIN websites /\ websites[websiteId].apiKey = apiKey
    THEN websiteId ELSE NoWebsite

verifyApiKey(websiteId, apiKey) ==
    LET website == {w \in DOMAIN websites : w = websiteId /\ websites[w].apiKey = apiKey}
    IN  IF website = {} \/ \E w \in website : ~websites[w].isActive
        THEN NoWebsite
        ELSE CHOOSE w \in website : TRUE

\* the row the vote handlers look up: by email when one is supplied, else by IP
existingVoteRows(feedbackId, email, ipAddress) ==
    {v \in votes : v.feedbackId = feedbackId /\
                   IF email # NoEmail THEN v.voterEmail = email ELSE v.voterIp = ipAddress}

existingVote(feedbackId, email, ipAddress) ==
    LET rows == existingVoteRows(feedbackId, email, ipAddress)
    IN  IF rows = {} THEN NoRow ELSE CHOOSE v \in rows : \A u \in rows : v.id <= u.id

\* unique indexes of FeedbackVotes: (feedbackId, voterIp) and (feedbackId, voterEmail);
\* a NULL voterEmail never collides
UniqueViolation_none(row) == FALSE

UniqueViolation(row) ==
    \E v \in votes : v.feedbackId = row.feedbackId /\
        (v.voterIp = row.voterIp \/ (row.voterEmail # NoEmail /\ v.voterEmail = row.voterEmail))

\* castVote, existing row: is the stored type different from the requested one
voteDiffers_always(stored, requested) == TRUE

voteDiffers(stored, requested) == stored # requested

\* castVote, flip branch (lines 113-122): the columns set, computed from the item
\* read at line 63
flipCounters_noDecrement(fb, voteType) ==
    [upvotes   |-> fb.upvotes + (IF voteType = "up" THEN 1 ELSE 0),
     downvotes |-> fb.downvotes + (IF voteType = "down" THEN 1 ELSE 0)]

flipCounters(fb, voteType) ==
    LET upvoteChange == IF voteType = "up" THEN 1 ELSE -1
        downvoteChange == IF voteType = "down" THEN 1 ELSE -1
    IN  [upvotes |-> fb.upvotes + upvoteChange, downvotes |-> fb.downvotes + downvoteChange]

\* castVote, new-vote branch (lines 135-151): the one column set
newVoteCounters_swapped(fb, voteType) ==
    IF voteType = "up"
    THEN [downvotes |-> fb.downvotes + 1]
    ELSE [upvotes |-> fb.upvotes + 1]

newVoteCounters(fb, voteType) ==
    IF voteType = "up"
    THEN [upvotes |-> fb.upvotes + 1]
    ELSE [downvotes |-> fb.downvotes + 1]

\* removeVote (lines 257-273): the one column set
removeCounters_both(fb, voteType) ==
    [upvotes |-> fb.upvotes - 1, downvotes |-> fb.downvotes - 1]

removeCounters(fb, voteType) ==
    IF voteType = "up"
    THEN [upvotes |-> fb.upvotes - 1]
    ELSE [downvotes |-> fb.downvotes - 1]

\* UPDATE Feedback SET <columns> WHERE id = feedbackId: the other columns keep
\* their stored values; no row matches when the item is gone
updateFeedback(feedbackId, columns) ==
    IF feedbackId \in DOMAIN feedback
    THEN [feedback EXCEPT ![feedbackId] =
            [c \in DOMAIN @ |-> IF c \in DOMAIN columns THEN columns[c] ELSE @[c]]]
    ELSE feedback

(* ------------------------ responses and requests ----------------------- *)

\* the catch block of every handler: status 500 with this fixed text
InternalError == "Internal server error"

\* the success key of the JSON body: the success returns write success: true,
\* the error returns write {error} (and details) alone
SuccessField(status) == IF status \in {200, 201} THEN "true" ELSE "absent"

IdleReq == [pc |-> "idle", op |-> "none", fid |-> 0, key |-> NoKey, email |-> NoEmail,
            ip |-> "p1", vtype |-> "up", fb |-> NoFb, ev |-> NoRow,
            wid |-> 0, name |-> "", session |-> 0, body |-> "valid", faulted |-> FALSE,
            uid |-> 0, isActive |-> TRUE, newStatus |-> "new",
            status |-> 0, error |-> "", success |-> "absent", data |-> <<0, 0>>]

\* the response of a finished request; the handler's locals are gone with it
Response(op, status, error, data) ==
    [IdleReq EXCEPT !.pc = "done", !.op = op, !.status = status, !.error = error,
                    !.success = SuccessField(status), !.data = data]

Respond(r, status, error) ==
    req' = [req EXCEPT ![r] = Response(req[r].op, status, error, <<0, 0>>)]

Goto(r, pc) == req' = [req EXCEPT ![r].pc = pc]

Free(r) == req[r].pc \in {"idle", "done"}

InFlight(r) == ~Free(r)

\* no request is in flight
Quiescent == \A r \in Reqs : Free(r)

NoPagination == [total |-> 0, page |-> 0, limit |-> 0, totalPages |-> 0]

\* a query parameter that the URL does not carry
Absent == "absent"

\* the query of a list request without filters; limit and offset are <<>>
\* (absent) or <<n>> (the numeric string n)
PlainQuery == [status |-> Absent, type |-> Absent, category |-> Absent, limit |-> <<>>,
               offset |-> <<>>, sort |-> Absent, public |-> Absent]

\* the response of the latest request when its handler runs in one step (NoReply
\* after a vote request, whose response is in req): the request's key, the website
\* it is scoped to and whether its id/body/query is well formed, then the status,
\* the error text and the rows whose data the body carries
Reply(op, key, scope, wellFormed, status, error) ==
    [op |-> op, key |-> key, scope |-> scope, wellFormed |-> wellFormed, parsed |-> TRUE,
     ip |-> "p1", fault |-> 0, status |-> status, error |-> error,
     success |-> SuccessField(status),
     items |-> <<>>, cats |-> {}, comments |-> {}, pagination |-> NoPagination,
     query |-> PlainQuery]

\* the reply to a body that request.json() rejects: the catch block answers, and
\* a website id carried in the body was never read
Unparsed(reply, scope) ==
    [reply EXCEPT !.parsed = FALSE, !.scope = scope, !.wellFormed = FALSE, !.status = 500,
                  !.error = InternalError, !.success = SuccessField(500)]

NoReply == Reply("none", NoKey, 0, TRUE, 0, "")

Init ==
    /\ websites = InitWebsites
    /\ categories = InitCategories
    /\ feedback = InitFeedback
    /\ votes = {}
    /\ comments = {}
    /\ analytics = {}
    /\ admins = InitAdmins
    /\ req = [r \in Reqs |-> IdleReq]
    /\ now = 0
    /\ last = NoReply
    /\ started = 0

store == <<websites, categories, feedback, votes, comments, analytics, admins>>

(* ------------- POST /api/feedback/{id}/vote (castVote) ----------------- *)

\* lines 29-60: id, body and x-api-key checks, before any database statement
VotePOST_begin(r, fid, vtype, email, key, ip) ==
    /\ Free(r)
    /\ started < MaxOps
    /\ started' = started + 1
    /\ LET q == [IdleReq EXCEPT !.op = "cast", !.fid = fid, !.key = key, !.email = email,
                                !.ip = ip, !.vtype = vtype]
       IN  req' = [req EXCEPT ![r] =
                CASE fid = 0 -> Response("cast", 400, "Invalid feedback ID", <<0, 0>>)
                  [] fid # 0 /\ vtype = MalformedBody ->
                        [Response("cast", 500, InternalError, <<0, 0>>) EXCEPT !.vtype = MalformedBody]
                  [] fid # 0 /\ vtype = BadBody ->
                        [Response("cast", 400, "Invalid request data", <<0, 0>>) EXCEPT !.vtype = BadBody]
                  [] fid # 0 /\ vtype \notin {BadBody, MalformedBody} /\ key = NoKey ->
                        Response("cast", 401, "API key required", <<0, 0>>)
                  [] OTHER -> [q EXCEPT !.pc = "load"]]
    /\ last' = NoReply
    /\ UNCHANGED <<store, now>>

\* lines 62-74 (POST) and 205-217 (DELETE): read the feedback row
Vote_loadFeedback(r) ==
    /\ req[r].pc = "load"
    /\ IF req[r].fid \in DOMAIN feedback
       THEN req' = [req EXCEPT ![r].pc = "verify", ![r].fb = feedback[req[r].fid]]
       ELSE Respond(r, 404, "Feedback not found")
    /\ UNCHANGED <<store, last, now, started>>

\* lines 76-83 (POST) and 219-226 (DELETE): verify the key for the item's website
Vote_verify(r) ==
    /\ req[r].pc = "verify"
    /\ IF verifyApiKey(req[r].fb.websiteId, req[r].key) = NoWebsite
       THEN Respond(r, 403, "Invalid API key")
       ELSE Goto(r, "lookup")
    /\ UNCHANGED <<store, last, now, started>>

\* lines 85-104, 125: look up the voter's row and choose the branch
VotePOST_lookup(r) ==
    /\ req[r].pc = "lookup"
    /\ req[r].op = "cast"
    /\ LET ev == existingVote(req[r].fid, req[r].email, req[r].ip)
       IN  req' = [req EXCEPT ![r].ev = ev,
                              ![r].pc = IF ev # NoRow
                                        THEN IF voteDiffers(ev.voteType, req[r].vtype)
                                             THEN "flip_vote" ELSE "refresh"
                                        ELSE "insert"]
    /\ UNCHANGED <<store, last, now, started>>

\* lines 105-110: UPDATE FeedbackVotes SET voteType WHERE id = existingVote.id
VotePOST_flipVote(r) ==
    /\ req[r].pc = "flip_vote"
    /\ votes' = {IF v.id = req[r].ev.id THEN [v EXCEPT !.voteType = req[r].vtype] ELSE v : v \in votes}
    /\ Goto(r, "flip_count")
    /\ UNCHANGED <<websites, categories, feedback, comments, analytics, admins, last, now, started>>

\* lines 112-123: one UPDATE of both counters, from the item read at line 63
VotePOST_flipCount(r) ==
    /\ req[r].pc = "flip_count"
    /\ feedback' = updateFeedback(req[r].fid, flipCounters(req[r].fb, req[r].vtype))
    /\ Goto(r, "refresh")
    /\ UNCHANGED <<websites, categories, votes, comments, analytics, admins, last, now, started>>

\* lines 126-132: INSERT INTO FeedbackVotes; a unique-index violation throws (500)
VotePOST_insert(r) ==
    /\ req[r].pc = "insert"
    /\ LET row == [id |-> NextId({v.id : v \in votes}), feedbackId |-> req[r].fid,
                   voterEmail |-> req[r].email, voterIp |-> req[r].ip,
                   voteType |-> req[r].vtype]
       IN  IF UniqueViolation(row)
           THEN /\ Respond(r, 500, InternalError)
                /\ votes' = votes
           ELSE /\ votes' = votes \cup {row}
                /\ Goto(r, "new_count")
    /\ UNCHANGED <<websites, categories, feedback, comments, analytics, admins, last, now, started>>

\* lines 134-151: UPDATE of the matching counter, from the item read at line 63
VotePOST_newCount(r) ==
    /\ req[r].pc = "new_count"
    /\ feedback' = updateFeedback(req[r].fid, newVoteCounters(req[r].fb, req[r].vtype))
    /\ Goto(r, "refresh")
    /\ UNCHANGED <<websites, categories, votes, comments, analytics, admins, last, now, started>>

\* lines 154-173 (POST) and 275-294 (DELETE): re-read the counters and answer 200
Vote_refresh(r) ==
    /\ req[r].pc = "refresh"
    /\ req' = [req EXCEPT ![r] = Response(req[r].op, 200, "",
                              IF req[r].fid \in DOMAIN feedback
                              THEN <<feedback[req[r].fid].upvotes, feedback[req[r].fid].downvotes>>
                              ELSE <<0, 0>>)]
    /\ UNCHANGED <<store, last, now, started>>

(* ------------ DELETE /api/feedback/{id}/vote (removeVote) -------------- *)

\* lines 188-203: id and x-api-key checks
VoteDELETE_begin(r, fid, email, key, ip) ==
    /\ Free(r)
    /\ started < MaxOps
    /\ started' = started + 1
    /\ LET q == [IdleReq EXCEPT !.op = "remove", !.fid = fid, !.key = key, !.email = email, !.ip = ip]
       IN  req' = [req EXCEPT ![r] =
                CASE fid = 0 -> Response("remove", 400, "Invalid feedback ID", <<0, 0>>)
                  [] fid # 0 /\ key = NoKey -> Response("remove", 401, "API key required", <<0, 0>>)
                  [] OTHER -> [q EXCEPT !.pc = "load"]]
    /\ last' = NoReply
    /\ UNCHANGED <<store, now>>

\* lines 228-251: look up the voter's row; 404 when there is none
VoteDELETE_lookup(r) ==
    /\ req[r].pc = "lookup"
    /\ req[r].op = "remove"
    /\ LET ev == existingVote(req[r].fid, req[r].email, req[r].ip)
       IN  IF ev = NoRow
           THEN Respond(r, 404, "Vote not found")
           ELSE req' = [req EXCEPT ![r].ev = ev, ![r].pc = "del_vote"]
    /\ UNCHANGED <<store, last, now, started>>

\* lines 253-254: DELETE FROM FeedbackVotes WHERE id = existingVote.id
VoteDELETE_deleteVote(r) ==
    /\ req[r].pc = "del_vote"
    /\ votes' = {v \in votes : v.id # req[r].ev.id}
    /\ Goto(r, "del_count")
    /\ UNCHANGED <<websites, categories, feedback, comments, analytics, admins, last, now, started>>

\* lines 256-273: UPDATE of the counter of the deleted row's type
VoteDELETE_count(r) ==
    /\ req[r].pc = "del_count"
    /\ feedback' = updateFeedback(req[r].fid, removeCounters(req[r].fb, req[r].ev.voteType))
    /\ Goto(r, "refresh")
    /\ UNCHANGED <<websites, categories, votes, comments, analytics, admins, last, now, started>>

(* ------- website and category creation, one statement per step -------- *)

\* the admin_session cookie of an admin request: absent, a value JSON.parse
\* rejects, or the adminId it carries (admin 4 is not stored)
NoCookie == 0

BadCookie == -1

Sessions == {NoCookie, BadCookie, 1, 2, 3, 4}

\* the session guard of every admin handler (part_000 lines 22-41): the admin
\* the request acts as, 0 when the guard answers 401
sessionAdmin_ignoreActive(session) ==
    IF session \in DOMAIN admins THEN session ELSE 0

sessionAdmin(session) ==
    IF session \in DOMAIN admins /\ admins[session].isActive THEN session ELSE 0

\* the 401 of the guard: JSON.parse throws into the inner catch ('Invalid
\* session'), a missing or inactive admin is 'Unauthorized'
SessionRefused(q) ==
    [Response(q.op, 401, IF q.session = BadCookie THEN "Invalid session" ELSE "Unauthorized",
              <<0, 0>>) EXCEPT !.session = q.session]

\* generateApiKey: 32 random bytes, a key no stored website has
generateApiKey(id) == CASE id = 3 -> "keyC" [] id = 4 -> "keyD" [] OTHER -> "keyE"

\* POST /api/websites, lines 12-31: parse and validate the body
WebsitesPOST_begin(r, domain, body) ==
    /\ Free(r)
    /\ started < MaxOps
    /\ started' = started + 1
    /\ req' = [req EXCEPT ![r] =
            CASE body = MalformedBody ->
                    [Response("website", 500, InternalError, <<0, 0>>) EXCEPT !.body = body]
              [] body = InvalidBody ->
                    [Response("website", 400, "Invalid request data", <<0, 0>>) EXCEPT !.body = body]
              [] OTHER -> [IdleReq EXCEPT !.op = "website", !.name = domain, !.pc = "w_check"]]
    /\ last' = NoReply
    /\ UNCHANGED <<store, now>>

\* the admin creation handlers, cookie check: POST of admin/api/websites/[id].ts
\* (op "admin_create", lines 22-31) and the admin-session POST of
\* api/websites/index.ts (op "admin_website", lines 152-161)
AdminWebsitesPOST_begin(r, op, session, domain, apiKey, body) ==
    /\ Free(r)
    /\ started < MaxOps
    /\ started' = started + 1
    /\ req' = [req EXCEPT ![r] =
            IF session = NoCookie
            THEN SessionRefused([op |-> op, session |-> session])
            ELSE [IdleReq EXCEPT !.op = op, !.name = domain, !.key = apiKey, !.session = session,
                                 !.body = body, !.pc = "session"]]
    /\ last' = NoReply
    /\ UNCHANGED <<store, now>>

\* [id].ts lines 33-70, index.ts lines 163-199: select the session's admin, then
\* parse and validate the body
AdminWebsites_session(r) ==
    /\ req[r].pc = "session"
    /\ req[r].op \in {"admin_create", "admin_website"}
    /\ req' = [req EXCEPT ![r] =
            CASE sessionAdmin(req[r].session) = 0 -> SessionRefused(req[r])
              [] sessionAdmin(req[r].session) # 0 /\ req[r].body = MalformedBody ->
                    [Response(req[r].op, 500, InternalError, <<0, 0>>) EXCEPT !.body = MalformedBody]
              [] sessionAdmin(req[r].session) # 0 /\ req[r].body = InvalidBody ->
                    [Response(req[r].op, 400,
                              IF req[r].op = "admin_create" THEN "Invalid input" ELSE "Invalid request data",
                              <<0, 0>>) EXCEPT !.body = InvalidBody]
              [] OTHER -> [req[r] EXCEPT !.pc = "w_check"]]
    /\ UNCHANGED <<store, last, now, started>>

\* the response to a domain that is already registered: 409 from
\* api/websites/index.ts (lines 40-50 and 210-220), 400 from
\* admin/api/websites/[id].ts (lines 81-86)
domainExists(op) ==
    IF op = "admin_create"
    THEN [status |-> 400, error |-> "Domain already exists"]
    ELSE [status |-> 409, error |-> "A website with this domain already exists"]

\* select the website with the requested domain; answer when there is one
Websites_check(r) ==
    /\ req[r].pc = "w_check"
    /\ IF \E w \in DOMAIN websites : websites[w].domain = req[r].name
       THEN Respond(r, domainExists(req[r].op).status, domainExists(req[r].op).error)
       ELSE Goto(r, "w_insert")
    /\ UNCHANGED <<store, last, now, started>>

\* unique indexes of Websites: domain, apiKey
WebsiteUniqueViolation(row) ==
    \E w \in DOMAIN websites : websites[w].domain = row.domain \/ websites[w].apiKey = row.apiKey

\* INSERT INTO Websites; a unique-index violation throws (500). The public
\* handlers generate the key, admin/api/websites/[id].ts takes it from the body
Websites_insert(r) ==
    /\ req[r].pc = "w_insert"
    /\ LET id == NextId(DOMAIN websites)
           row == [domain |-> req[r].name,
                   apiKey |-> IF req[r].op = "admin_create" THEN req[r].key ELSE generateApiKey(id),
                   isActive |-> TRUE, rateLimit |-> NoRateLimit]
       IN  IF WebsiteUniqueViolation(row)
           THEN /\ Respond(r, 500, InternalError)
                /\ websites' = websites
           ELSE /\ Cardinality(DOMAIN websites) < MaxWebsites
                /\ websites' = (id :> row) @@ websites
                /\ req' = [req EXCEPT ![r] = [Response(req[r].op, 201, "", <<0, 0>>) EXCEPT !.wid = id]]
    /\ UNCHANGED <<categories, feedback, votes, comments, analytics, admins, last, now, started>>

\* POST /api/categories, lines 80-107: body and x-api-key checks
CategoriesPOST_begin(r, websiteId, slug, body, key) ==
    /\ Free(r)
    /\ started < MaxOps
    /\ started' = started + 1
    /\ req' = [req EXCEPT ![r] =
            CASE body = MalformedBody ->
                    [Response("category", 500, InternalError, <<0, 0>>) EXCEPT !.body = body]
              [] body = InvalidBody ->
                    [Response("category", 400, "Invalid request data", <<0, 0>>) EXCEPT !.body = body]
              [] body = ValidBody /\ key = NoKey -> Response("category", 401, "API key required", <<0, 0>>)
              [] OTHER -> [IdleReq EXCEPT !.op = "category", !.wid = websiteId, !.name = slug,
                                          !.key = key, !.pc = "c_verify"]]
    /\ last' = NoReply
    /\ UNCHANGED <<store, now>>

\* lines 109-116: verify the key for the website of the body
Categories_verify(r) ==
    /\ req[r].pc = "c_verify"
    /\ IF verifyApiKey(req[r].wid, req[r].key) = NoWebsite
       THEN Respond(r, 403, "Invalid API key or inactive website")
       ELSE Goto(r, "c_check")
    /\ UNCHANGED <<store, last, now, started>>

\* lines 118-140: select the category with the slug; 409 when there is one
Categories_check(r) ==
    /\ req[r].pc = "c_check"
    /\ IF \E c \in categories : c.websiteId = req[r].wid /\ c.slug = req[r].name
       THEN Respond(r, 409, "A category with this slug already exists for this website")
       ELSE Goto(r, "c_insert")
    /\ UNCHANGED <<store, last, now, started>>

\* lines 142-154: INSERT INTO FeedbackCategories; the unique index on
\* (websiteId, slug) makes a second insert throw (500)
Categories_insert(r) ==
    /\ req[r].pc = "c_insert"
    /\ IF \E c \in categories : c.websiteId = req[r].wid /\ c.slug = req[r].name
       THEN /\ Respond(r, 500, InternalError)
            /\ categories' = categories
       ELSE /\ Cardinality(categories) < MaxCategories
            /\ categories' = categories \cup
                  {[id |-> NextId({c.id : c \in categories}), websiteId |-> req[r].wid,
                    slug |-> req[r].name, isActive |-> TRUE]}
            /\ req' = [req EXCEPT ![r] = [Response("category", 201, "", <<0, 0>>) EXCEPT
                                             !.wid = req[r].wid, !.name = req[r].name]]
    /\ UNCHANGED <<websites, feedback, votes, comments, analytics, admins, last, now, started>>

\* a storage statement of an in-flight request throws: the catch block of the
\* handler answers, except that the admin lookup of a session sits in an inner
\* try whose catch answers 401 'Invalid session'
StorageFault(r) ==
    /\ InFlight(r)
    /\ req' = [req EXCEPT ![r] =
            [(IF req[r].pc = "session"
              THEN Response(req[r].op, 401, "Invalid session", <<0, 0>>)
              ELSE Response(req[r].op, 500, InternalError, <<0, 0>>)) EXCEPT
                  !.faulted = TRUE, !.session = req[r].session]]
    /\ UNCHANGED <<store, last, now, started>>

(* ---------- admin handlers behind the session cookie, per statement ------ *)

\* parseInt of a path id that is not a number
NaN == -1

\* the cookie check that opens every admin handler (status.ts lines 13-19): no
\* cookie is 401 at once, otherwise the request goes on to the session lookup
AdminBegin(r, q) ==
    /\ Free(r)
    /\ started < MaxOps
    /\ started' = started + 1
    /\ req' = [req EXCEPT ![r] =
            IF q.session = NoCookie THEN SessionRefused(q) ELSE [q EXCEPT !.pc = "session"]]
    /\ last' = NoReply
    /\ UNCHANGED <<store, now>>

\* PATCH /admin/api/feedback/{id}/status
AdminStatusPATCH_begin(r, session, fid, status, body) ==
    AdminBegin(r, [IdleReq EXCEPT !.op = "admin_status", !.session = session, !.fid = fid,
                                  !.newStatus = status, !.body = body])

\* status.ts lines 21-65: session lookup, path id, body
AdminStatus_session(r) ==
    /\ req[r].pc = "session"
    /\ req[r].op = "admin_status"
    /\ req' = [req EXCEPT ![r] =
            CASE sessionAdmin(req[r].session) = 0 -> SessionRefused(req[r])
              [] sessionAdmin(req[r].session) # 0 /\ req[r].fid = NaN ->
                    Response(req[r].op, 400, "Invalid feedback ID", <<0, 0>>)
              [] sessionAdmin(req[r].session) # 0 /\ req[r].fid # NaN /\ req[r].body = MalformedBody ->
                    [Response(req[r].op, 500, InternalError, <<0, 0>>) EXCEPT !.body = MalformedBody]
              [] sessionAdmin(req[r].session) # 0 /\ req[r].fid # NaN /\ req[r].body = InvalidBody ->
                    [Response(req[r].op, 400, "Invalid input", <<0, 0>>) EXCEPT !.body = InvalidBody]
              [] OTHER -> [req[r] EXCEPT !.pc = "as_check"]]
    /\ UNCHANGED <<store, last, now, started>>

\* status.ts lines 69-80: select the item, 404 when there is none
AdminStatus_check(r) ==
    /\ req[r].pc = "as_check"
    /\ IF req[r].fid \notin DOMAIN feedback
       THEN Respond(r, 404, "Feedback not found")
       ELSE Goto(r, "as_update")
    /\ UNCHANGED <<store, last, now, started>>

\* status.ts lines 83-98: UPDATE Feedback SET status, updatedAt
AdminStatus_update(r) ==
    /\ req[r].pc = "as_update"
    /\ feedback' = updateFeedback(req[r].fid, [status |-> req[r].newStatus])
    /\ req' = [req EXCEPT ![r] = [Response(req[r].op, 200, "", <<0, 0>>) EXCEPT !.fid = req[r].fid]]
    /\ UNCHANGED <<websites, categories, votes, comments, analytics, admins, last, now, started>>

\* PATCH /admin/api/users/{id}
AdminUsersPATCH_begin(r, session, uid, isActive, body) ==
    AdminBegin(r, [IdleReq EXCEPT !.op = "user_status", !.session = session, !.uid = uid,
                                  !.isActive = isActive, !.body = body])

\* DELETE /admin/api/users/{id}
AdminUsersDELETE_begin(r, session, uid) ==
    AdminBegin(r, [IdleReq EXCEPT !.op = "user_delete", !.session = session, !.uid = uid])

\* the self check of both user handlers (part_000 lines 53-58 and 160-165)
isSelf(userId, currentAdmin) == userId = currentAdmin

\* part_000 lines 21-72 (PATCH) and 128-165 (DELETE): session lookup, path id,
\* self check, and the body of the PATCH
AdminUsers_session(r) ==
    /\ req[r].pc = "session"
    /\ req[r].op \in {"user_status", "user_delete"}
    /\ LET q == req[r]
           currentAdmin == sessionAdmin(q.session)
       IN  req' = [req EXCEPT ![r] =
            IF currentAdmin = 0 THEN SessionRefused(q)
            ELSE IF q.uid = NaN
            THEN [Response(q.op, 400, "Invalid user ID", <<0, 0>>) EXCEPT !.session = q.session]
            ELSE IF isSelf(q.uid, currentAdmin)
            THEN [Response(q.op, 400, IF q.op = "user_status" THEN "Cannot modify your own status"
                                      ELSE "Cannot delete your own account", <<0, 0>>)
                    EXCEPT !.session = q.session, !.uid = q.uid]
            ELSE IF q.op = "user_status" /\ q.body = MalformedBody
            THEN [Response(q.op, 500, InternalError, <<0, 0>>) EXCEPT !.body = MalformedBody]
            ELSE IF q.op = "user_status" /\ q.body = InvalidBody
            THEN [Response(q.op, 400, "Invalid input", <<0, 0>>) EXCEPT !.body = InvalidBody]
            ELSE [q EXCEPT !.pc = "u_check"]]
    /\ UNCHANGED <<store, last, now, started>>

\* part_000 lines 75-88 and 168-179: select the user, 404 when there is none
AdminUsers_check(r) ==
    /\ req[r].pc = "u_check"
    /\ IF req[r].uid \notin DOMAIN admins
       THEN Respond(r, 404, "User not found")
       ELSE Goto(r, "u_write")
    /\ UNCHANGED <<store, last, now, started>>

\* part_000 lines 91-104: UPDATE AdminUsers SET isActive, updatedAt; lines
\* 182-192: DELETE FROM AdminUsers
AdminUsers_write(r) ==
    /\ req[r].pc = "u_write"
    /\ admins' = IF req[r].op = "user_delete"
                 THEN [a \in DOMAIN admins \ {req[r].uid} |-> admins[a]]
                 ELSE IF req[r].uid \in DOMAIN admins
                 THEN [admins EXCEPT ![req[r].uid].isActive = req[r].isActive]
                 ELSE admins
    /\ req' = [req EXCEPT ![r] = [Response(req[r].op, 200, "", <<0, 0>>) EXCEPT
                                     !.session = req[r].session, !.uid = req[r].uid]]
    /\ UNCHANGED <<websites, categories, feedback, votes, comments, analytics, last, now, started>>

\* DELETE /admin/api/websites/{id}
AdminWebsitesDELETE_begin(r, session, wid) ==
    AdminBegin(r, [IdleReq EXCEPT !.op = "website_delete", !.session = session, !.wid = wid])

\* [id].ts lines 133-166: session lookup, path id
AdminWebsitesDELETE_session(r) ==
    /\ req[r].pc = "session"
    /\ req[r].op = "website_delete"
    /\ req' = [req EXCEPT ![r] =
            IF sessionAdmin(req[r].session) = 0 THEN SessionRefused(req[r])
            ELSE IF req[r].wid = NaN
            THEN Response(req[r].op, 400, "Invalid website ID", <<0, 0>>)
            ELSE [req[r] EXCEPT !.pc = "wd_check"]]
    /\ UNCHANGED <<store, last, now, started>>

\* [id].ts lines 169-180: select the website, 404 when there is none
AdminWebsitesDELETE_check(r) ==
    /\ req[r].pc = "wd_check"
    /\ IF req[r].wid \notin DOMAIN websites
       THEN Respond(r, 404, "Website not found")
       ELSE Goto(r, "wd_delete")
    /\ UNCHANGED <<store, last, now, started>>

\* the rows whose websiteId column references the website (db/config.ts)
websiteReferenced(wid) ==
    \/ \E f \in DOMAIN feedback : feedback[f].websiteId = wid
    \/ \E c \in categories : c.websiteId = wid
    \/ \E e \in analytics : e.websiteId = wid

\* [id].ts lines 182-194: one DELETE on Websites. The references carry no
\* cascade: with referencing rows the statement either fails (foreign keys
\* enforced, 500) or removes the website alone
AdminWebsitesDELETE_delete(r) ==
    /\ req[r].pc = "wd_delete"
    /\ \/ /\ websiteReferenced(req[r].wid)
          /\ Respond(r, 500, InternalError)
          /\ websites' = websites
       \/ /\ websites' = [w \in DOMAIN websites \ {req[r].wid} |-> websites[w]]
          /\ req' = [req EXCEPT ![r] = [Response(req[r].op, 200, "", <<0, 0>>) EXCEPT !.wid = req[r].wid]]
    /\ UNCHANGED <<categories, feedback, votes, comments, analytics, admins, last, now, started>>

(* ------------- handlers modelled as one step per request --------------- *)

StatusEnum == {"new", "in_review", "in_progress", "resolved", "closed", "spam"}

TypeEnum == {"bug", "feature", "improvement", "question", "compliment", "complaint", "other"}

PriorityEnum == {"low", "medium", "high", "urgent"}

SortEnum == {"newest", "oldest", "priority", "upvotes"}

\* a request is taken up when no other request is in flight
Arrive ==
    /\ Quiescent
    /\ started < MaxOps
    /\ started' = started + 1
    /\ UNCHANGED <<req, now>>

\* the website a feedback row belongs to, 0 when there is no such row
ScopeOf(fid) == IF fid \in DOMAIN feedback THEN feedback[fid].websiteId ELSE 0

\* LEFT JOIN FeedbackCategories ON Feedback.categoryId = FeedbackCategories.id
joinedCategories(fids) ==
    {c.id : c \in {c \in categories : \E f \in fids : feedback[f].categoryId = c.id}}

\* the elements of a sequence
Range(seq) == {seq[i] : i \in 1..Len(seq)}

\* POST /api/feedback, lines 60-88: rows of this website and IP inside the window
recentSubmissions_outsideWindow(websiteId, ipAddress, windowStart) ==
    Cardinality({f \in DOMAIN feedback :
                    /\ feedback[f].websiteId = websiteId
                    /\ feedback[f].ipAddress = ipAddress
                    /\ feedback[f].createdAt <= windowStart})

recentSubmissions(websiteId, ipAddress, windowStart) ==
    Cardinality({f \in DOMAIN feedback :
                    /\ feedback[f].websiteId = websiteId
                    /\ feedback[f].ipAddress = ipAddress
                    /\ feedback[f].createdAt > windowStart})

\* lines 61-77: the website declares a rate limit and the count has reached it
rateLimited_above(websiteId, ipAddress) ==
    LET rateLimit == websites[websiteId].rateLimit
    IN  /\ rateLimit # NoRateLimit
        /\ recentSubmissions(websiteId, ipAddress, now - rateLimit.windowMinutes)
              > rateLimit.maxSubmissions

rateLimited(websiteId, ipAddress) ==
    LET rateLimit == websites[websiteId].rateLimit
    IN  /\ rateLimit # NoRateLimit
        /\ recentSubmissions(websiteId, ipAddress, now - rateLimit.windowMinutes)
              >= rateLimit.maxSubmissions

\* POST /api/feedback (submit); categoryId 0 is an absent categoryId. Its storage
\* statements are 1 the verifyApiKey select, 2 the rate-limit count, 3 the
\* Feedback insert, 4 the AnalyticsEvents insert; fault names the one that
\* throws (0: none), and the catch block at lines 141-152 answers.
Feedback_POST(websiteId, categoryId, type, body, key, ip, fault) ==
    /\ Arrive
    /\ LET R(status, error) ==
               [Reply("submit", key, websiteId, body = ValidBody, status, error) EXCEPT !.ip = ip]
           Thrown == [R(500, InternalError) EXCEPT !.fault = fault]
       IN  IF body = MalformedBody
           THEN last' = Unparsed(R(500, InternalError), 0) /\ UNCHANGED store
           ELSE IF body = InvalidBody
           THEN last' = R(400, "Invalid request data") /\ UNCHANGED store
           ELSE IF key = NoKey
           THEN last' = R(401, "API key required") /\ UNCHANGED store
           ELSE IF fault = 1
           THEN last' = Thrown /\ UNCHANGED store
           ELSE IF verifyApiKey(websiteId, key) = NoWebsite
           THEN last' = R(403, "Invalid API key or inactive website") /\ UNCHANGED store
           ELSE IF fault = 2 /\ websites[websiteId].rateLimit # NoRateLimit
           THEN last' = Thrown /\ UNCHANGED store
           ELSE IF rateLimited(websiteId, ip)
           THEN last' = R(429, "Rate limit exceeded. Please try again later.") /\ UNCHANGED store
           ELSE IF fault = 3
           THEN last' = Thrown /\ UNCHANGED store
           ELSE LET id == NextId(DOMAIN feedback)
                IN  /\ Cardinality(DOMAIN feedback) < MaxFeedback
                    /\ feedback' = (id :> NewFeedbackRow(websiteId, categoryId, type, ip, now)) @@ feedback
                    /\ IF fault = 4
                       THEN /\ analytics' = analytics
                            /\ last' = Thrown
                       ELSE /\ analytics' = analytics \cup
                                  {[id |-> NextId({e.id : e \in analytics}), websiteId |-> websiteId,
                                    eventType |-> "feedback_submitted", feedbackId |-> id]}
                            /\ last' = [R(201, "") EXCEPT !.items = <<id>>]
                    /\ UNCHANGED <<websites, categories, votes, comments, admins>>

(* ------------- POST /api/feedback, one statement per step -------------- *)

\* index.ts lines 16-44: body and x-api-key checks of a submission
FeedbackPOST_begin(r, websiteId, key, ip) ==
    /\ Free(r)
    /\ started < MaxOps
    /\ started' = started + 1
    /\ req' = [req EXCEPT ![r] =
            IF key = NoKey
            THEN Response("submit", 401, "API key required", <<0, 0>>)
            ELSE [IdleReq EXCEPT !.op = "submit", !.wid = websiteId, !.key = key, !.ip = ip,
                                 !.pc = "s_verify"]]
    /\ last' = NoReply
    /\ UNCHANGED <<store, now>>

\* lines 46-61: verify the key; a website without a rate limit skips the count
FeedbackPOST_verify(r) ==
    /\ req[r].pc = "s_verify"
    /\ IF verifyApiKey(req[r].wid, req[r].key) = NoWebsite
       THEN Respond(r, 403, "Invalid API key or inactive website")
       ELSE IF websites[req[r].wid].rateLimit = NoRateLimit
       THEN Goto(r, "s_insert")
       ELSE Goto(r, "s_count")
    /\ UNCHANGED <<store, last, now, started>>

\* lines 62-88: count the rows inside the window, 429 when the limit is reached
FeedbackPOST_count(r) ==
    /\ req[r].pc = "s_count"
    /\ IF rateLimited(req[r].wid, req[r].ip)
       THEN Respond(r, 429, "Rate limit exceeded. Please try again later.")
       ELSE Goto(r, "s_insert")
    /\ UNCHANGED <<store, last, now, started>>

\* lines 90-111: INSERT INTO Feedback
FeedbackPOST_insert(r) ==
    /\ req[r].pc = "s_insert"
    /\ Cardinality(DOMAIN feedback) < MaxFeedback
    /\ LET id == NextId(DOMAIN feedback)
       IN  /\ feedback' = (id :> NewFeedbackRow(req[r].wid, 0, "bug", req[r].ip, now)) @@ feedback
           /\ req' = [req EXCEPT ![r].pc = "s_event", ![r].fid = id]
    /\ UNCHANGED <<websites, categories, votes, comments, analytics, admins, last, now, started>>

\* lines 113-140: INSERT INTO AnalyticsEvents, then 201
FeedbackPOST_event(r) ==
    /\ req[r].pc = "s_event"
    /\ analytics' = analytics \cup
          {[id |-> NextId({e.id : e \in analytics}), websiteId |-> req[r].wid,
            eventType |-> "feedback_submitted", feedbackId |-> req[r].fid]}
    /\ req' = [req EXCEPT ![r] = [Response("submit", 201, "", <<0, 0>>) EXCEPT !.fid = req[r].fid]]
    /\ UNCHANGED <<websites, categories, feedback, votes, comments, admins, last, now, started>>

\* feedbackQuerySchema: limit and offset arrive as <<>> (absent) or <<n>> (a numeric string)
parseLimit(raw) == IF raw = <<>> \/ raw[1] = 0 THEN 10 ELSE raw[1]

parseOffset(raw) == IF raw = <<>> THEN 0 ELSE raw[1]

queryValid(q) ==
    /\ q.status \in StatusEnum \cup {Absent}
    /\ q.type \in TypeEnum \cup {Absent}
    /\ q.sort \in SortEnum \cup {Absent}
    /\ parseLimit(q.limit) >= 1
    /\ parseLimit(q.limit) <= 100
    /\ parseOffset(q.offset) >= 0

\* GET /api/feedback, lines 210-232: the conjunction of the conditions
categoryRecord(websiteId, slug) == {c \in categories : c.websiteId = websiteId /\ c.slug = slug}

conditions_unresolvedEmpty(websiteId, q) ==
    {f \in DOMAIN feedback :
        /\ feedback[f].websiteId = websiteId
        /\ q.status # Absent => feedback[f].status = q.status
        /\ q.type # Absent => feedback[f].type = q.type
        /\ q.public = "true" => feedback[f].isPublic
        /\ q.category # Absent
              => \E c \in categoryRecord(websiteId, q.category) : feedback[f].categoryId = c.id}

conditions(websiteId, q) ==
    {f \in DOMAIN feedback :
        /\ feedback[f].websiteId = websiteId
        /\ q.status # Absent => feedback[f].status = q.status
        /\ q.type # Absent => feedback[f].type = q.type
        /\ q.public = "true" => feedback[f].isPublic
        /\ (q.category # Absent /\ categoryRecord(websiteId, q.category) # {})
              => \E c \in categoryRecord(websiteId, q.category) : feedback[f].categoryId = c.id}

\* desc(Feedback.priority) orders the text column: urgent > medium > low > high
priorityRank(p) == CASE p = "high" -> 1 [] p = "low" -> 2 [] p = "medium" -> 3 [] OTHER -> 4

\* lines 234-248: f comes before g under the chosen order (rows that tie come in id order)
before(f, g, sort) ==
    LET kf == CASE sort = "oldest" -> feedback[f].createdAt
                [] sort = "priority" -> 0 - priorityRank(feedback[f].priority)
                [] sort = "upvotes" -> 0 - feedback[f].upvotes
                [] OTHER -> 0 - feedback[f].createdAt
        kg == CASE sort = "oldest" -> feedback[g].createdAt
                [] sort = "priority" -> 0 - priorityRank(feedback[g].priority)
                [] sort = "upvotes" -> 0 - feedback[g].upvotes
                [] OTHER -> 0 - feedback[g].createdAt
    IN  kf < kg \/ (kf = kg /\ f <= g)

RECURSIVE orderBy(_, _)
orderBy(fids, sort) ==
    IF fids = {} THEN <<>>
    ELSE LET first == CHOOSE f \in fids : \A g \in fids : before(f, g, sort)
         IN  <<first>> \o orderBy(fids \ {first}, sort)

\* .limit(n).offset(k)
limitOffset_noOffset(rows, limit, offset) ==
    SubSeq(rows, 1, IF limit < Len(rows) THEN limit ELSE Len(rows))

limitOffset(rows, limit, offset) ==
    IF offset >= Len(rows) THEN <<>>
    ELSE SubSeq(rows, offset + 1, IF offset + limit < Len(rows) THEN offset + limit ELSE Len(rows))

\* GET /api/feedback (list)
Feedback_GET(websiteId, q, key) ==
    /\ Arrive
    /\ UNCHANGED store
    /\ LET R(status, error) ==
               [Reply("list", key, websiteId, queryValid(q), status, error) EXCEPT !.query = q]
       IN  IF websiteId = 0
           THEN last' = [R(400, "Website ID required") EXCEPT !.wellFormed = FALSE]
           ELSE IF key = NoKey
           THEN last' = R(401, "API key required")
           ELSE IF verifyApiKey(websiteId, key) = NoWebsite
           THEN last' = R(403, "Invalid API key or inactive website")
           ELSE IF ~queryValid(q)
           THEN last' = R(400, "Invalid query parameters")
           ELSE LET limit == parseLimit(q.limit)
                    offset == parseOffset(q.offset)
                    rows == conditions(websiteId, q)
                    total == Cardinality(rows)
                    page == limitOffset(orderBy(rows, q.sort), limit, offset)
                IN  last' = [R(200, "") EXCEPT
                               !.items = page,
                               !.cats = joinedCategories(Range(page)),
                               !.pagination = [total |-> total,
                                               page |-> (offset \div limit) + 1,
                                               limit |-> limit,
                                               totalPages |-> (total + limit - 1) \div limit]]

\* getPublicFeedback, lines 109-120: the order each sort option selects;
\* 'oldest' selects desc(Feedback.createdAt) like the default
publicOrder(sort) ==
    CASE sort = "oldest" -> "newest"
      [] sort = "upvotes" -> "upvotes"
      [] OTHER -> "newest"

\* getPublicFeedback(websiteId, options) of lib/utils.ts: the ids of the public
\* rows of the website in the order returned; options carries type, category,
\* sort, limit and offset (<<>> when left out: limit 10, offset 0)
getPublicFeedback(websiteId, options) ==
    LET limit == IF options.limit = <<>> THEN 10 ELSE options.limit[1]
        offset == IF options.offset = <<>> THEN 0 ELSE options.offset[1]
        rows == conditions(websiteId, [options EXCEPT !.public = "true", !.status = Absent])
    IN  limitOffset(orderBy(rows, publicOrder(options.sort)), limit, offset)

\* a page of the site calls getPublicFeedback; the rows returned are the reply
GetPublicFeedback_call(websiteId, options) ==
    /\ Quiescent
    /\ last' = [Reply("public", NoKey, websiteId, TRUE, 200, "") EXCEPT
                   !.items = getPublicFeedback(websiteId, options), !.query = options]
    /\ UNCHANGED <<store, req, now, started>>

\* GET /api/feedback/{id}
FeedbackId_GET(fid, key) ==
    /\ Arrive
    /\ UNCHANGED store
    /\ LET R(status, error) == Reply("get", key, ScopeOf(fid), fid # 0, status, error)
       IN  IF fid = 0
           THEN last' = R(400, "Invalid feedback ID")
           ELSE IF key = NoKey
           THEN last' = R(401, "API key required")
           ELSE IF fid \notin DOMAIN feedback
           THEN last' = R(404, "Feedback not found")
           ELSE IF verifyApiKey(feedback[fid].websiteId, key) = NoWebsite
           THEN last' = R(403, "Invalid API key")
           ELSE last' = [R(200, "") EXCEPT !.items = <<fid>>, !.cats = joinedCategories({fid})]

\* feedbackUpdateSchema.safeParse(body).data: a z.object keeps its declared
\* keys (status, priority, isPublic) and strips every other key of the body
feedbackUpdateSchema_passthrough(body) == body

feedbackUpdateSchema(body) ==
    [k \in DOMAIN body \cap {"status", "priority", "isPublic"} |-> body[k]]

\* PATCH /api/feedback/{id}; updateData is the JSON body, of which the update
\* sets what feedbackUpdateSchema keeps
FeedbackId_PATCH(fid, updateData, body, key) ==
    /\ Arrive
    /\ LET R(status, error) ==
               Reply("update", key, ScopeOf(fid), fid # 0 /\ body = ValidBody, status, error)
       IN  IF fid = 0
           THEN last' = R(400, "Invalid feedback ID") /\ UNCHANGED store
           ELSE IF body = MalformedBody
           THEN last' = Unparsed(R(500, InternalError), ScopeOf(fid)) /\ UNCHANGED store
           ELSE IF body = InvalidBody
           THEN last' = R(400, "Invalid request data") /\ UNCHANGED store
           ELSE IF key = NoKey
           THEN last' = R(401, "API key required") /\ UNCHANGED store
           ELSE IF fid \notin DOMAIN feedback
           THEN last' = R(404, "Feedback not found") /\ UNCHANGED store
           ELSE IF verifyApiKey(feedback[fid].websiteId, key) = NoWebsite
           THEN last' = R(403, "Invalid API key") /\ UNCHANGED store
           ELSE /\ feedback' = updateFeedback(fid, feedbackUpdateSchema(updateData))
                /\ last' = [R(200, "") EXCEPT !.items = <<fid>>]
                /\ UNCHANGED <<websites, categories, votes, comments, analytics, admins>>

\* rows of FeedbackVotes and FeedbackComments that reference the item
referenced(fid) ==
    (\E v \in votes : v.feedbackId = fid) \/ (\E c \in comments : c.feedbackId = fid)

\* DELETE /api/feedback/{id}: one DELETE on Feedback. The schema declares the
\* references without a cascade: when rows reference the item the statement
\* either fails (foreign keys enforced, 500) or removes the item alone.
FeedbackId_DELETE(fid, key) ==
    /\ Arrive
    /\ LET R(status, error) == Reply("delete", key, ScopeOf(fid), fid # 0, status, error)
       IN  IF fid = 0
           THEN last' = R(400, "Invalid feedback ID") /\ UNCHANGED store
           ELSE IF key = NoKey
           THEN last' = R(401, "API key required") /\ UNCHANGED store
           ELSE IF fid \notin DOMAIN feedback
           THEN last' = R(404, "Feedback not found") /\ UNCHANGED store
           ELSE IF verifyApiKey(feedback[fid].websiteId, key) = NoWebsite
           THEN last' = R(403, "Invalid API key") /\ UNCHANGED store
           ELSE \/ /\ referenced(fid)
                   /\ last' = R(500, InternalError)
                   /\ UNCHANGED store
                \/ /\ feedback' = [f \in DOMAIN feedback \ {fid} |-> feedback[f]]
                   /\ last' = R(200, "")
                   /\ UNCHANGED <<websites, categories, votes, comments, analytics, admins>>

\* GET /api/feedback/{id}/comments
Comments_GET(fid, includeInternal, key) ==
    /\ Arrive
    /\ UNCHANGED store
    /\ LET R(status, error) == Reply("comments", key, ScopeOf(fid), fid # 0, status, error)
       IN  IF fid = 0
           THEN last' = R(400, "Invalid feedback ID")
           ELSE IF key = NoKey
           THEN last' = R(401, "API key required")
           ELSE IF fid \notin DOMAIN feedback
           THEN last' = R(404, "Feedback not found")
           ELSE IF verifyApiKey(feedback[fid].websiteId, key) = NoWebsite
           THEN last' = R(403, "Invalid API key")
           ELSE last' = [R(200, "") EXCEPT !.comments =
                            {c.id : c \in {c \in comments : c.feedbackId = fid /\
                                                           (includeInternal \/ ~c.isInternal)}}]

\* POST /api/feedback/{id}/comments
Comments_POST(fid, isInternal, body, key) ==
    /\ Arrive
    /\ LET R(status, error) ==
               Reply("comment", key, ScopeOf(fid), fid # 0 /\ body = ValidBody, status, error)
       IN  IF fid = 0
           THEN last' = R(400, "Invalid feedback ID") /\ UNCHANGED store
           ELSE IF body = MalformedBody
           THEN last' = Unparsed(R(500, InternalError), ScopeOf(fid)) /\ UNCHANGED store
           ELSE IF body = InvalidBody
           THEN last' = R(400, "Invalid request data") /\ UNCHANGED store
           ELSE IF key = NoKey
           THEN last' = R(401, "API key required") /\ UNCHANGED store
           ELSE IF fid \notin DOMAIN feedback
           THEN last' = R(404, "Feedback not found") /\ UNCHANGED store
           ELSE IF verifyApiKey(feedback[fid].websiteId, key) = NoWebsite
           THEN last' = R(403, "Invalid API key") /\ UNCHANGED store
           ELSE LET id == NextId({c.id : c \in comments})
                IN  /\ Cardinality(comments) < MaxComments
                    /\ comments' = comments \cup {[id |-> id, feedbackId |-> fid, isInternal |-> isInternal]}
                    /\ last' = [R(201, "") EXCEPT !.comments = {id}]
                    /\ UNCHANGED <<websites, categories, feedback, votes, analytics, admins>>

\* GET /api/categories
Categories_GET(websiteId, key) ==
    /\ Arrive
    /\ UNCHANGED store
    /\ LET R(status, error) == Reply("categories", key, websiteId, websiteId # 0, status, error)
       IN  IF websiteId = 0
           THEN last' = R(400, "Website ID required")
           ELSE IF key = NoKey
           THEN last' = R(401, "API key required")
           ELSE IF verifyApiKey(websiteId, key) = NoWebsite
           THEN last' = R(403, "Invalid API key or inactive website")
           ELSE last' = [R(200, "") EXCEPT !.cats =
                            {c.id : c \in {c \in categories : c.websiteId = websiteId /\ c.isActive}}]

\* POST /api/categories
Categories_POST(websiteId, slug, body, key) ==
    /\ Arrive
    /\ LET R(status, error) == Reply("category", key, websiteId, body = ValidBody, status, error)
       IN  IF body = MalformedBody
           THEN last' = Unparsed(R(500, InternalError), 0) /\ UNCHANGED store
           ELSE IF body = InvalidBody
           THEN last' = R(400, "Invalid request data") /\ UNCHANGED store
           ELSE IF key = NoKey
           THEN last' = R(401, "API key required") /\ UNCHANGED store
           ELSE IF verifyApiKey(websiteId, key) = NoWebsite
           THEN last' = R(403, "Invalid API key or inactive website") /\ UNCHANGED store
           ELSE IF categoryRecord(websiteId, slug) # {}
           THEN last' = R(409, "A category with this slug already exists for this website")
                /\ UNCHANGED store
           ELSE LET id == NextId({c.id : c \in categories})
                IN  /\ Cardinality(categories) < MaxCategories
                    /\ categories' = categories \cup
                          {[id |-> id, websiteId |-> websiteId, slug |-> slug, isActive |-> TRUE]}
                    /\ last' = [R(201, "") EXCEPT !.cats = {id}]
                    /\ UNCHANGED <<websites, feedback, votes, comments, analytics, admins>>

\* GET /api/analytics: the top feedback of the website inside the timeframe
Analytics_GET(websiteId, daysBack, key) ==
    /\ Arrive
    /\ UNCHANGED store
    /\ LET R(status, error) == Reply("analytics", key, websiteId, websiteId # 0, status, error)
       IN  IF websiteId = 0
           THEN last' = R(400, "Website ID required")
           ELSE IF key = NoKey
           THEN last' = R(401, "API key required")
           ELSE IF verifyApiKey(websiteId, key) = NoWebsite
           THEN last' = R(403, "Invalid API key or inactive website")
           ELSE LET rows == {f \in DOMAIN feedback :
                                feedback[f].websiteId = websiteId /\
                                feedback[f].createdAt >= now - daysBack * 24 * 60}
                IN  last' = [R(200, "") EXCEPT !.items = limitOffset(orderBy(rows, "upvotes"), 10, 0)]

(* ------------------------- specifications ------------------------------ *)

\* one statement of one vote request
VoteStep(r) ==
    \/ Vote_loadFeedback(r)
    \/ Vote_verify(r)
    \/ VotePOST_lookup(r)
    \/ VotePOST_flipVote(r)
    \/ VotePOST_flipCount(r)
    \/ VotePOST_insert(r)
    \/ VotePOST_newCount(r)
    \/ VoteDELETE_lookup(r)
    \/ VoteDELETE_deleteVote(r)
    \/ VoteDELETE_count(r)
    \/ Vote_refresh(r)

\* a vote request arrives with its path id, body and headers drawn from the given sets
VoteBegin(r, Fids, Bodies, Keys, Voters) ==
    \/ \E fid \in Fids, vtype \in Bodies, voter \in Voters, key \in Keys :
          VotePOST_begin(r, fid, vtype, voter[1], key, voter[2])
    \/ \E fid \in Fids, voter \in Voters, key \in Keys :
          VoteDELETE_begin(r, fid, voter[1], key, voter[2])

\* every voter: an optional email and the source IP of the request
AllVoters == (Emails \cup {NoEmail}) \X IPs

\* two voters with distinct identities and distinct addresses, one per request slot
DistinctVoter(r) == IF r = "r1" THEN {<<"e1", "p1">>} ELSE {<<NoEmail, "p2">>}

\* overlapping vote requests of authorized callers on item 1: statements of
\* different requests interleave freely
Next ==
    \E r \in Reqs : VoteBegin(r, {1}, VoteTypes, {"keyA"}, AllVoters) \/ VoteStep(r)

Spec == Init /\ [][Next]_vars

\* non-overlapping vote requests with every kind of input: a request begins
\* only when no other is in flight
SeqNext ==
    \E r \in Reqs :
        \/ (\A o \in Reqs : Free(o)) /\
           VoteBegin(r, {0, 1, 2, 3}, VoteTypes \cup {BadBody}, {NoKey, "keyA", "keyB"}, AllVoters)
        \/ VoteStep(r)

SeqSpec == Init /\ [][SeqNext]_vars

\* overlapping vote requests on item 1 in which the two request slots belong to
\* two distinct voters
DistinctNext ==
    \E r \in Reqs : VoteBegin(r, {1}, VoteTypes, {"keyA"}, DistinctVoter(r)) \/ VoteStep(r)

DistinctSpec == Init /\ [][DistinctNext]_vars

\* a store without feedback in which both websites are active; website 2
\* declares no rate limit
RateInit ==
    /\ websites = [InitWebsites EXCEPT ![2].isActive = TRUE]
    /\ categories = InitCategories
    /\ feedback = <<>>
    /\ votes = {}
    /\ comments = {}
    /\ analytics = {}
    /\ admins = InitAdmins
    /\ req = [r \in Reqs |-> IdleReq]
    /\ now = 0
    /\ last = NoReply
    /\ started = 0

\* a minute passes (Date.now() and the NOW default of createdAt)
Tick ==
    /\ now < MaxTime
    /\ now' = now + 1
    /\ UNCHANGED <<store, req, last, started>>

\* non-overlapping submissions from two addresses to two websites as time passes
RateNext ==
    \/ Tick
    \/ \E w \in WebsiteIds, ip \in IPs, key \in ApiKeys : Feedback_POST(w, 0, "bug", ValidBody, key, ip, 0)

RateSpec == RateInit /\ [][RateNext]_vars

ApiKeySet == {NoKey, "keyA", "keyB"}

\* list requests that page through the unfiltered rows
PagingQueries ==
    {[PlainQuery EXCEPT !.limit = l, !.offset = o] :
        l \in {<<>>, <<-1>>, <<0>>, <<1>>, <<2>>, <<100>>, <<101>>},
        o \in {<<>>, <<-1>>, <<0>>, <<1>>, <<2>>, <<3>>}}

\* list requests that filter, and list requests that sort
FilterQueries ==
    {[PlainQuery EXCEPT !.status = st, !.type = ty, !.category = c, !.public = pb] :
        st \in {Absent, "new", "resolved", "bogus"}, ty \in {Absent, "bug"},
        c \in {Absent, "s1", "zz"}, pb \in {Absent, "true", "false"}}
    \cup {[PlainQuery EXCEPT !.sort = so] : so \in SortEnum}

\* non-overlapping submissions, updates and list requests on website 1
ListNext ==
    \/ \E c \in {0, 1}, type \in {"bug", "feature"}, ip \in IPs :
          Feedback_POST(1, c, type, ValidBody, "keyA", ip, 0)
    \/ \E fid \in {1, 3}, updateData \in {[isPublic |-> TRUE], [status |-> "resolved"]} :
          FeedbackId_PATCH(fid, updateData, ValidBody, "keyA")
    \/ \E q \in PagingQueries \cup FilterQueries, key \in {"keyA", "keyB"} : Feedback_GET(1, q, key)

ListSpec == Init /\ [][ListNext]_vars

\* one statement of one submission
SubmitStep(r) ==
    \/ FeedbackPOST_verify(r)
    \/ FeedbackPOST_count(r)
    \/ FeedbackPOST_insert(r)
    \/ FeedbackPOST_event(r)

\* overlapping submissions to the two websites with the key of website 1 as
\* time passes
RaceNext ==
    \/ Tick
    \/ \E r \in Reqs :
          \/ \E w \in WebsiteIds, key \in {NoKey, "keyA"}, ip \in IPs : FeedbackPOST_begin(r, w, key, ip)
          \/ SubmitStep(r)

RaceSpec == RateInit /\ [][RaceNext]_vars

\* one statement of one admin status update
AdminStatusStep(r) ==
    \/ AdminStatus_session(r)
    \/ AdminStatus_check(r)
    \/ AdminStatus_update(r)

\* update bodies that carry columns the update schema does not declare
OwnerBodies ==
    {[status |-> "resolved", upvotes |-> 5, websiteId |-> 2],
     [isPublic |-> TRUE, priority |-> "high", downvotes |-> 2]}

\* non-overlapping submissions, votes, updates by the key holder and status
\* updates by admin 1 on website 1
OwnerNext ==
    \/ \E r \in Reqs :
          \/ Quiescent /\ VoteBegin(r, {1}, VoteTypes, {"keyA"}, {<<NoEmail, "p1">>})
          \/ VoteStep(r)
          \/ Quiescent /\ \E fid \in {1, 3} : AdminStatusPATCH_begin(r, 1, fid, "closed", ValidBody)
          \/ AdminStatusStep(r)
    \/ Feedback_POST(1, 0, "bug", ValidBody, "keyA", "p1", 0)
    \/ \E fid \in {1, 3}, updateData \in OwnerBodies : FeedbackId_PATCH(fid, updateData, ValidBody, "keyA")

OwnerSpec == Init /\ [][OwnerNext]_vars

\* the store after item 1 was made public
PublicInit ==
    /\ websites = InitWebsites
    /\ categories = InitCategories
    /\ feedback = [InitFeedback EXCEPT ![1].isPublic = TRUE]
    /\ votes = {}
    /\ comments = {}
    /\ analytics = {}
    /\ admins = InitAdmins
    /\ req = [r \in Reqs |-> IdleReq]
    /\ now = 0
    /\ last = NoReply
    /\ started = 0

\* the options of a getPublicFeedback call
PublicOptions ==
    {[PlainQuery EXCEPT !.sort = so, !.type = ty, !.category = c, !.limit = l, !.offset = o] :
        so \in {Absent, "newest", "oldest", "upvotes"}, ty \in {Absent, "bug"},
        c \in {Absent, "s1"}, l \in {<<>>, <<1>>}, o \in {<<>>, <<1>>}}

\* submissions to website 1 as time passes, publication of items, list requests
\* with public=true and getPublicFeedback calls with the same options
PublicNext ==
    \/ Tick
    \/ \E c \in {0, 1} : Feedback_POST(1, c, "bug", ValidBody, "keyA", "p1", 0)
    \/ \E fid \in {1, 3} : FeedbackId_PATCH(fid, [isPublic |-> TRUE], ValidBody, "keyA")
    \/ \E options \in PublicOptions :
          \/ Feedback_GET(1, [options EXCEPT !.public = "true"], "keyA")
          \/ GetPublicFeedback_call(1, options)

PublicSpec == PublicInit /\ [][PublicNext]_vars

\* one statement of one website deletion request
WebsiteDeleteStep(r) ==
    \/ AdminWebsitesDELETE_session(r)
    \/ AdminWebsitesDELETE_check(r)
    \/ AdminWebsitesDELETE_delete(r)

\* non-overlapping votes and comments on item 1, deletions of items by the key
\* holder and deletions of websites by admin 1
CascadeNext ==
    \/ \E r \in Reqs :
          \/ Quiescent /\ VoteBegin(r, {1}, VoteTypes, {"keyA"}, {<<NoEmail, "p1">>})
          \/ VoteStep(r)
          \/ Quiescent /\ \E wid \in WebsiteIds : AdminWebsitesDELETE_begin(r, 1, wid)
          \/ WebsiteDeleteStep(r)
    \/ Comments_POST(1, FALSE, ValidBody, "keyA")
    \/ \E fid \in {1, 2} : FeedbackId_DELETE(fid, "keyA")

CascadeSpec == Init /\ [][CascadeNext]_vars

\* one statement of one admin request
AdminStep(r) ==
    \/ AdminWebsites_session(r)
    \/ Websites_check(r)
    \/ Websites_insert(r)
    \/ AdminStatus_session(r)
    \/ AdminStatus_check(r)
    \/ AdminStatus_update(r)
    \/ AdminUsers_session(r)
    \/ AdminUsers_check(r)
    \/ AdminUsers_write(r)
    \/ WebsiteDeleteStep(r)

\* non-overlapping requests to the admin endpoints with every kind of cookie
AdminSeqNext ==
    \E r \in Reqs :
        \/ /\ Quiescent
           /\ \E session \in Sessions \ {2} :
                 \/ \E fid \in {1, 3, NaN}, body \in BodyKinds :
                       AdminStatusPATCH_begin(r, session, fid, "resolved", body)
                 \/ \E uid \in {1, 2, 4, NaN}, isActive \in BOOLEAN, body \in BodyKinds :
                       AdminUsersPATCH_begin(r, session, uid, isActive, body)
                 \/ \E uid \in {1, 2, 4, NaN} : AdminUsersDELETE_begin(r, session, uid)
                 \/ \E wid \in {1, 3, NaN} : AdminWebsitesDELETE_begin(r, session, wid)
                 \/ \E domain \in {"d1", "d3"}, body \in BodyKinds :
                       AdminWebsitesPOST_begin(r, "admin_create", session, domain, "keyN", body)
        \/ AdminStep(r)

AdminSeqSpec == Init /\ [][AdminSeqNext]_vars

\* one statement of one admin-user request
AdminUsersStep(r) ==
    \/ AdminUsers_session(r)
    \/ AdminUsers_check(r)
    \/ AdminUsers_write(r)

\* overlapping requests of admins 1 and 2 on the accounts of admins 1 and 2
AdminRaceNext ==
    \E r \in Reqs :
        \/ \E session \in {1, 2}, uid \in {1, 2} :
              \/ \E isActive \in BOOLEAN : AdminUsersPATCH_begin(r, session, uid, isActive, ValidBody)
              \/ AdminUsersDELETE_begin(r, session, uid)
        \/ AdminUsersStep(r)

AdminRaceSpec == Init /\ [][AdminRaceNext]_vars

\* one statement of one website or category creation request
CreateStep(r) ==
    \/ AdminWebsites_session(r)
    \/ Websites_check(r)
    \/ Websites_insert(r)
    \/ Categories_verify(r)
    \/ Categories_check(r)
    \/ Categories_insert(r)

\* a creation request arrives
CreateBegin(r, Domains, Slugs, Kinds, SessionSet) ==
    \/ \E domain \in Domains, body \in Kinds : WebsitesPOST_begin(r, domain, body)
    \/ \E op \in {"admin_create", "admin_website"}, session \in SessionSet, domain \in Domains,
          apiKey \in {"keyA", "keyN"}, body \in Kinds :
          AdminWebsitesPOST_begin(r, op, session, domain, apiKey, body)
    \/ \E slug \in Slugs, body \in Kinds, key \in ApiKeySet :
          CategoriesPOST_begin(r, 1, slug, body, key)

\* overlapping creation requests with well-formed bodies
ConflictNext ==
    \E r \in Reqs :
        \/ CreateBegin(r, {"d1", "d3"}, {"s1", "s2"}, {ValidBody}, {1})
        \/ CreateStep(r)

ConflictSpec == Init /\ [][ConflictNext]_vars

\* non-overlapping requests in which any storage statement may throw
FaultNext ==
    \/ \E w \in WebsiteIds, key \in {"keyA", "keyB"}, fault \in 0..4 :
          Feedback_POST(w, 0, "bug", ValidBody, key, "p1", fault)
    \/ \E r \in Reqs :
          \/ Quiescent /\ VoteBegin(r, {1}, VoteTypes, {"keyA"}, {<<NoEmail, "p1">>})
          \/ Quiescent /\ CreateBegin(r, {"d1", "d3"}, {"s2"}, BodyKinds, {NoCookie, 1, 3})
          \/ VoteStep(r)
          \/ CreateStep(r)
          \/ StorageFault(r)

FaultSpec == Init /\ [][FaultNext]_vars

\* non-overlapping requests to every endpoint that takes an API key
ApiNext ==
    \/ \E r \in Reqs :
          \/ Quiescent /\ VoteBegin(r, {1, 2}, VoteTypes \cup {BadBody, MalformedBody},
                                    {"keyA", "keyB"}, {<<NoEmail, "p1">>})
          \/ VoteStep(r)
    \/ \E w \in WebsiteIds, c \in {0, 1, 2}, body \in BodyKinds, key \in ApiKeySet :
          Feedback_POST(w, c, "bug", body, key, "p1", 0)
    \/ \E w \in WebsiteIds \cup {0}, key \in ApiKeySet,
          q \in {PlainQuery, [PlainQuery EXCEPT !.limit = <<101>>]} :
          Feedback_GET(w, q, key)
    \/ \E fid \in {0, 1, 2, 3}, key \in ApiKeySet : FeedbackId_GET(fid, key)
    \/ \E fid \in {0, 1, 2, 3}, key \in ApiKeySet, body \in BodyKinds,
          updateData \in {[isPublic |-> TRUE], [status |-> "resolved", priority |-> "high"]} :
          FeedbackId_PATCH(fid, updateData, body, key)
    \/ \E fid \in {0, 1, 2, 3}, key \in ApiKeySet : FeedbackId_DELETE(fid, key)
    \/ \E fid \in {0, 1, 2, 3}, key \in ApiKeySet, includeInternal \in BOOLEAN :
          Comments_GET(fid, includeInternal, key)
    \/ \E fid \in {0, 1, 2, 3}, key \in ApiKeySet, isInternal \in BOOLEAN, body \in BodyKinds :
          Comments_POST(fid, isInternal, body, key)
    \/ \E w \in WebsiteIds \cup {0}, key \in ApiKeySet : Categories_GET(w, key)
    \/ \E w \in WebsiteIds, slug \in {"s1", "s2"}, body \in BodyKinds, key \in ApiKeySet :
          Categories_POST(w, slug, body, key)
    \/ \E w \in WebsiteIds \cup {0}, key \in ApiKeySet : Analytics_GET(w, 30, key)

ApiSpec == Init /\ [][ApiNext]_vars

(* ---------------------------- properties ------------------------------ *)

VoteCount(fid, t) == Cardinality({v \in votes : v.feedbackId = fid /\ v.voteType = t})

Consistent(fid) ==
    /\ feedback[fid].upvotes = VoteCount(fid, "up")
    /\ feedback[fid].downvotes = VoteCount(fid, "down")

Counters(fb) == <<fb.upvotes, fb.downvotes>>

\* request r takes a step
Steps(r) == req'[r] # req[r]

\* C1: counter-ledger consistency. Starting from counters (0,0) and no vote rows,
\* after any sequence of non-overlapping castVote/removeVote requests (whatever
\* their outcome) every item's upvotes equals the number of its up rows and its
\* downvotes the number of its down rows.
C1_CounterLedgerConsistency ==
    Quiescent => \A f \in DOMAIN feedback : Consistent(f)

C1_Witness ==
    /\ Quiescent
    /\ VoteCount(1, "up") = 1
    /\ VoteCount(1, "down") = 1
    /\ \E r \in Reqs : req[r].op = "cast" /\ req[r].status = 200 /\ req[r].data = <<1, 1>>

\* C2: no lost counter updates. When castVote/removeVote requests of distinct
\* voters on one item overlap, then once all of them have completed the item's
\* counters equal the numbers of its up and down rows.
C2_NoLostUpdates ==
    (\A r \in Reqs : req[r].pc = "done") => Consistent(1)

\* C3: vote mutation atomicity. The change to the vote table and the matching
\* counter adjustment are one atomic unit: no step changes the vote rows of an
\* item and leaves the item's counters as they were.
C3_VoteMutationAtomic ==
    [][\A f \in DOMAIN feedback :
          (\A t \in VoteTypes : VoteCount(f, t)' = VoteCount(f, t))
          \/ Counters(feedback'[f]) # Counters(feedback[f])]_vars

\* C4: ledger uniqueness. There is never more than one vote row per
\* (item, voter email) nor per (item, voter IP), and an insert that meets an
\* existing row of the same voter is rejected: it adds no row, changes no
\* counter and the request fails.
UniqueRows ==
    \A v1, v2 \in votes :
        (v1.feedbackId = v2.feedbackId /\
         (v1.voterIp = v2.voterIp \/ (v1.voterEmail # NoEmail /\ v1.voterEmail = v2.voterEmail)))
        => v1 = v2

SameVoterRow(r) ==
    \E v \in votes : v.feedbackId = req[r].fid /\
        IF req[r].email # NoEmail THEN v.voterEmail = req[r].email ELSE v.voterIp = req[r].ip

RejectedInsert ==
    \A r \in Reqs :
        (req[r].pc = "insert" /\ Steps(r) /\ SameVoterRow(r))
        => (votes' = votes /\ feedback' = feedback /\ req'[r].status = 500)

C4_LedgerUniqueness == [](UniqueRows) /\ [][RejectedInsert]_vars

\* two overlapping first votes of one voter: one inserted its row and is about to
\* count it, the other was rejected
C4_Witness ==
    \E r1, r2 \in Reqs :
        /\ req[r1].pc = "new_count"
        /\ req[r2].status = 500
        /\ Cardinality(votes) = 1
        /\ feedback[1].upvotes + feedback[1].downvotes = 0

\* C5: vote idempotence. A castVote with the type of the voter's existing row
\* goes straight to the answer: it writes no vote row, changes no counter, leaves
\* exactly one row for the (item, voter) pair and returns the counters unchanged.
SameTypeRepeat(r) ==
    /\ req[r].op = "cast"
    /\ req[r].ev # NoRow
    /\ req[r].ev.voteType = req[r].vtype

C5_VoteIdempotent ==
    [][\A r \in Reqs :
        /\ (req[r].pc = "lookup" /\ req[r].op = "cast" /\ Steps(r) /\
            existingVote(req[r].fid, req[r].email, req[r].ip) # NoRow /\
            existingVote(req[r].fid, req[r].email, req[r].ip).voteType = req[r].vtype)
           => (req'[r].pc = "refresh" /\ UNCHANGED store)
        /\ (req[r].pc = "refresh" /\ SameTypeRepeat(r) /\ Steps(r))
           => /\ UNCHANGED store
              /\ req[r].ev \in votes
              /\ Cardinality(existingVoteRows(req[r].fid, req[r].email, req[r].ip)) = 1
              /\ Counters(feedback[req[r].fid]) = Counters(req[r].fb)
              /\ req'[r].status = 200
              /\ req'[r].data = Counters(req[r].fb)]_vars

C5_Witness ==
    \E r \in Reqs : req[r].pc = "refresh" /\ SameTypeRepeat(r) /\ Counters(feedback[1]) = <<1, 0>>

\* C6: vote flip conservation. In the flip branch the row's type is changed
\* first, with the counters untouched, and then one counter write adds 1 to the
\* new type and takes 1 from the old type, so the sum is unchanged; from (1,0)
\* a flip to down stores (0,1) and never (1,1) or (0,0).
C6_FlipConservation ==
    [][\A r \in Reqs :
        /\ (req[r].pc = "flip_vote" /\ Steps(r))
           => /\ feedback' = feedback
              /\ votes' = (votes \ {req[r].ev}) \cup {[req[r].ev EXCEPT !.voteType = req[r].vtype]}
              /\ req[r].ev \in votes
        /\ (req[r].pc = "flip_count" /\ Steps(r))
           => LET old == feedback[req[r].fid]
                  new == feedback'[req[r].fid]
                  up  == IF req[r].vtype = "up" THEN 1 ELSE -1
              IN  /\ votes' = votes
                  /\ new.upvotes = old.upvotes + up
                  /\ new.downvotes = old.downvotes - up
                  /\ new.upvotes + new.downvotes = old.upvotes + old.downvotes
                  /\ (Counters(old) = <<1, 0>> /\ req[r].vtype = "down") => Counters(new) = <<0, 1>>
                  /\ Counters(old) = <<1, 0>> => Counters(new) \notin {<<1, 1>>, <<0, 0>>}]_vars

C6_Witness ==
    \E r \in Reqs :
        /\ req[r].pc = "refresh"
        /\ req[r].op = "cast"
        /\ req[r].ev # NoRow
        /\ req[r].ev.voteType = "up"
        /\ req[r].vtype = "down"
        /\ Counters(feedback[1]) = <<0, 1>>
        /\ Cardinality(votes) = 1

\* C7: vote removal. removeVote without a row of the voter answers 404
\* 'Vote not found' and changes nothing; with a row it deletes exactly that
\* row, lowers by exactly 1 only the counter of the row's type and answers
\* with the counters as stored.
C7_VoteRemoval ==
    [][\A r \in Reqs :
        /\ (req[r].pc = "lookup" /\ req[r].op = "remove" /\ Steps(r) /\ ~SameVoterRow(r))
           => (req'[r].status = 404 /\ req'[r].error = "Vote not found" /\ UNCHANGED store)
        /\ (req[r].pc = "del_vote" /\ Steps(r))
           => (req[r].ev \in votes /\ votes' = votes \ {req[r].ev} /\ feedback' = feedback)
        /\ (req[r].pc = "del_count" /\ Steps(r))
           => LET old == feedback[req[r].fid]
                  new == feedback'[req[r].fid]
              IN  /\ votes' = votes
                  /\ new.upvotes = old.upvotes - (IF req[r].ev.voteType = "up" THEN 1 ELSE 0)
                  /\ new.downvotes = old.downvotes - (IF req[r].ev.voteType = "down" THEN 1 ELSE 0)
        /\ (req[r].pc = "refresh" /\ req[r].op = "remove" /\ Steps(r))
           => (UNCHANGED store /\ req'[r].status = 200 /\
               req'[r].data = Counters(feedback[req[r].fid]))]_vars

C7_Witness ==
    /\ \E r \in Reqs : req[r].op = "remove" /\ req[r].status = 200 /\ req[r].data = <<0, 0>>
    /\ \E r \in Reqs : req[r].op = "remove" /\ req[r].status = 404 /\ req[r].error = "Vote not found"
    /\ votes = {}

\* C8: first vote always recorded. An authorized castVote of a voter identity
\* that has no row for the item inserts exactly one row for it, whatever emails
\* and addresses the other voters' rows carry.
C8_FirstVoteRecorded ==
    [][\A r \in Reqs :
        (req[r].pc = "insert" /\ Steps(r) /\ ~SameVoterRow(r))
        => (req'[r].pc = "new_count" /\ Cardinality(votes') = Cardinality(votes) + 1)]_vars

\* a step that is one whole request to a one-step handler
Handled == started' # started /\ req' = req /\ last' # NoReply

Inactive(w) == w \in DOMAIN websites /\ ~websites[w].isActive

\* verifyApiKey returns the website iff it exists, its key is the presented one
\* and it is active
VerifyExact ==
    \A w \in WebsiteIds \cup {0, 3}, k \in ApiKeys \cup {"other"} :
        verifyApiKey(w, k) =
            IF w \in DOMAIN websites /\ websites[w].apiKey = k /\ websites[w].isActive
            THEN w ELSE NoWebsite

\* a vote request whose item belongs to an inactive website is answered 403 by
\* the verification step, which leaves the store as it is
VoteOnInactive ==
    \A r \in Reqs :
        (req[r].pc = "verify" /\ Steps(r))
        => /\ UNCHANGED store
           /\ Inactive(req[r].fb.websiteId) => req'[r].status = 403

\* C9 as stated: verifyApiKey returns the website iff it exists, the key matches
\* and it is active, without touching the store; every request that carries an
\* API key and is scoped to an inactive website is answered 403 and mutates
\* nothing.
C9_InactiveRejected ==
    [](VerifyExact) /\
    [][/\ VoteOnInactive
       /\ (Handled /\ last'.key # NoKey /\ Inactive(last'.scope))
          => (last'.status = 403 /\ UNCHANGED store)]_vars

\* C9 amended: such a request is answered 403, unless its path id or body is
\* rejected first (the handlers read these before they verify the key): 400
\* when the id or the body is invalid, 500 when the body is not JSON; in every
\* case it mutates nothing.
C9_InactiveRejectedOrInvalid ==
    [](VerifyExact) /\
    [][/\ VoteOnInactive
       /\ (Handled /\ last'.key # NoKey /\ Inactive(last'.scope))
          => /\ UNCHANGED store
             /\ \/ last'.status = 403
                \/ last'.status = 400 /\ ~last'.wellFormed /\ last'.parsed
                \/ last'.status = 500 /\ ~last'.parsed
             /\ last'.wellFormed => last'.status = 403]_vars

\* a well-formed request with the matching key of the inactive website 2 was refused
C9_Witness ==
    /\ last.status = 403
    /\ last.scope = 2
    /\ last.key = websites[2].apiKey
    /\ last.wellFormed
    /\ ~websites[2].isActive

\* the websites whose key is k
KeyOwner(k) == {w \in DOMAIN websites : websites[w].apiKey = k}

\* the website of a comment row, through its feedback row
CommentScope(c, fb) == IF c.feedbackId \in DOMAIN fb THEN fb[c.feedbackId].websiteId ELSE 0

\* C10: tenant isolation. A caller that presents the key of website A receives
\* only feedback, category and comment data of A, and the rows its request
\* creates, modifies or deletes are rows of A; data is returned and rows are
\* changed only when verifyApiKey succeeds for the website.
C10_TenantIsolation ==
    [][/\ Handled =>
            \A a \in KeyOwner(last'.key) :
                /\ \A f \in Range(last'.items) : f \in DOMAIN feedback' /\ feedback'[f].websiteId = a
                /\ \A c \in categories' : c.id \in last'.cats => c.websiteId = a
                /\ \A c \in comments' : c.id \in last'.comments => CommentScope(c, feedback') = a
                /\ \A f \in DOMAIN feedback :
                      (f \notin DOMAIN feedback' \/ feedback'[f] # feedback[f])
                      => feedback[f].websiteId = a
                /\ \A f \in DOMAIN feedback' \ DOMAIN feedback : feedback'[f].websiteId = a
                /\ \A c \in (categories' \ categories) \cup (categories \ categories') : c.websiteId = a
                /\ \A c \in comments' \ comments : CommentScope(c, feedback') = a
                /\ (last'.status \in {200, 201} \/ store' # store)
                      => verifyApiKey(last'.scope, last'.key) = a
       /\ \A r \in Reqs : \A a \in KeyOwner(req[r].key) :
             /\ \A v \in (votes' \ votes) \cup (votes \ votes') : ScopeOf(v.feedbackId) = a
             /\ \A f \in DOMAIN feedback : feedback'[f] # feedback[f] => feedback[f].websiteId = a]_vars

\* the rows of website w from address p created after time t
RowsSince(w, p, t) ==
    {f \in DOMAIN feedback : feedback[f].websiteId = w /\ feedback[f].ipAddress = p /\
                              feedback[f].createdAt > t}

\* the website declares a rate limit and the address has used it up
LimitReached(w, p) ==
    /\ websites[w].rateLimit # NoRateLimit
    /\ Cardinality(RowsSince(w, p, now - websites[w].rateLimit.windowMinutes))
          >= websites[w].rateLimit.maxSubmissions

\* the outcome the precedence rule gives a submission
SubmitOutcome(reply) ==
    IF ~reply.wellFormed THEN 400
    ELSE IF reply.key = NoKey THEN 401
    ELSE IF ~(reply.scope \in DOMAIN websites /\ websites[reply.scope].apiKey = reply.key /\
              websites[reply.scope].isActive) THEN 403
    ELSE IF LimitReached(reply.scope, reply.ip) THEN 429
    ELSE 201

\* C11: submission outcome precedence. POST /feedback answers 400 when the
\* payload fails the schema, otherwise 401 without a key, otherwise 403 when
\* verification fails, otherwise 429 when the rate limit is reached, otherwise
\* 201 with the id, status and creation time of the new item; the 400, 401, 403
\* and 429 outcomes insert no Feedback row and no AnalyticsEvents row.
C11_SubmitPrecedence ==
    [][(Handled /\ last'.op = "submit")
       => /\ last'.status = SubmitOutcome(last')
          /\ last'.status \in {400, 401, 403, 429}
                => (feedback' = feedback /\ analytics' = analytics)
          /\ last'.status = 201
                => /\ last'.items = <<NextId(DOMAIN feedback)>>
                   /\ DOMAIN feedback' = DOMAIN feedback \cup {NextId(DOMAIN feedback)}
                   /\ feedback'[NextId(DOMAIN feedback)].status = "new"
                   /\ feedback'[NextId(DOMAIN feedback)].createdAt = now]_vars

\* C17: response envelope. Every response of every endpoint carries a boolean
\* success field, true on 200/201 and false on every error outcome.
C17_ResponseEnvelope ==
    [][/\ Handled => last'.success = (IF last'.status \in {200, 201} THEN "true" ELSE "false")
       /\ \A r \in Reqs :
             (Steps(r) /\ req'[r].pc = "done")
             => req'[r].success = (IF req'[r].status \in {200, 201} THEN "true" ELSE "false")]_vars

\* C19: malformed input is a validation error. A body that is not JSON or
\* that misses required fields is answered 400 by submit, castVote, addComment,
\* updateFeedback and createCategory, never 500, and nothing is mutated.
C19_MalformedIsValidationError ==
    [][/\ (Handled /\ last'.op \in {"submit", "update", "comment", "category"} /\ ~last'.wellFormed)
          => (last'.status = 400 /\ UNCHANGED store)
       /\ \A r \in Reqs :
             (Steps(r) /\ Free(r) /\ req'[r].op = "cast" /\ req'[r].vtype \in {BadBody, MalformedBody})
             => (req'[r].status = 400 /\ UNCHANGED store)]_vars

\* C12: rate limit boundary. For a website that declares rateLimit (M, W), in
\* any sequence of non-overlapping submissions an otherwise valid submission
\* from address p at time t is rejected with 429 and inserts nothing iff at
\* least M rows of that website with ipAddress p were created later than t - W;
\* otherwise it is stored (201). A website without rateLimit is never limited.
C12_RateLimitBoundary ==
    [][(Handled /\ last'.op = "submit" /\ last'.wellFormed /\
        last'.scope \in DOMAIN websites /\ websites[last'.scope].isActive /\
        websites[last'.scope].apiKey = last'.key)
       => /\ last'.status \in {429, 201}
          /\ last'.status = 429 <=> LimitReached(last'.scope, last'.ip)
          /\ last'.status = 429 => UNCHANGED store
          /\ last'.status = 201 => DOMAIN feedback' = DOMAIN feedback \cup {NextId(DOMAIN feedback)}
          /\ websites[last'.scope].rateLimit = NoRateLimit => last'.status = 201]_vars

\* the third submission of one address inside the window of website 1 was refused
C12_Witness ==
    /\ last.op = "submit"
    /\ last.status = 429
    /\ last.scope = 1
    /\ now = 1
    /\ Cardinality(RowsSince(1, last.ip, 0)) = websites[1].rateLimit.maxSubmissions

\* C13: analytics is best-effort. When the insert of the feedback_submitted
\* event fails after the Feedback row was inserted, the submission still
\* succeeds: the answer is 201 with the id of the new item, which stays stored.
C13_AnalyticsBestEffort ==
    [][(Handled /\ last'.op = "submit" /\ last'.fault = 4)
       => /\ last'.status = 201
          /\ last'.items = <<NextId(DOMAIN feedback)>>
          /\ NextId(DOMAIN feedback) \in DOMAIN feedback']_vars

\* C18: error boundary. Every request ends with one response, and whenever a
\* storage operation inside a handler fails the response is 500 with the
\* fixed text 'Internal server error'.
C18_ErrorBoundary ==
    [][/\ (Handled /\ last'.fault # 0)
          => (last'.status = 500 /\ last'.error = "Internal server error")
       /\ \A r \in Reqs :
             (Steps(r) /\ req'[r].faulted)
             => (req'[r].pc = "done" /\ req'[r].status = 500 /\
                 req'[r].error = "Internal server error")]_vars

\* the value a numeric query parameter stands for, d when it is absent
Supplied(raw, d) == IF raw = <<>> THEN d ELSE raw[1]

\* a list request that passed the key check
Listed == Handled /\ last'.op = "list" /\ last'.status \in {200, 400} /\ last'.scope # 0

\* the items of website w that satisfy every supplied filter of q; a slug
\* that names no category of w constrains nothing
Matching(w, q) ==
    {f \in DOMAIN feedback :
        /\ feedback[f].websiteId = w
        /\ q.status = Absent \/ feedback[f].status = q.status
        /\ q.type = Absent \/ feedback[f].type = q.type
        /\ q.public # "true" \/ feedback[f].isPublic
        /\ \A c \in categories :
              (c.websiteId = w /\ c.slug = q.category) => feedback[f].categoryId = c.id}

Min(a, b) == IF a < b THEN a ELSE b

Max(a, b) == IF a < b THEN b ELSE a

\* C14: pagination exactness. For an accepted limit L and offset O over a
\* filter set matching T items the page holds min(L, max(0, T - O)) items and
\* the metadata reports total = T, page = floor(O / L) + 1, limit = L and
\* totalPages = ceil(T / L).
C14_PaginationExact ==
    [][(Listed /\ last'.status = 200 /\ Supplied(last'.query.limit, 10) \in 1..100)
       => LET L == Supplied(last'.query.limit, 10)
              O == Supplied(last'.query.offset, 0)
              T == Cardinality(Matching(last'.scope, last'.query))
          IN  /\ Len(last'.items) = Min(L, Max(0, T - O))
              /\ Cardinality(Range(last'.items)) = Len(last'.items)
              /\ Range(last'.items) \subseteq Matching(last'.scope, last'.query)
              /\ last'.pagination.total = T
              /\ last'.pagination.page = (O \div L) + 1
              /\ last'.pagination.limit = L
              /\ last'.pagination.totalPages * L >= T
              /\ (last'.pagination.totalPages - 1) * L < T \/ (T = 0 /\ last'.pagination.totalPages = 0)]_vars

\* the second page of one item out of two
C14_Witness ==
    /\ last.op = "list"
    /\ last.status = 200
    /\ last.query.limit = <<1>>
    /\ last.query.offset = <<1>>
    /\ Len(last.items) = 1
    /\ last.pagination = [total |-> 2, page |-> 2, limit |-> 1, totalPages |-> 2]

C16_FilterSemantics ==
    [][(Listed /\ last'.query.status \in StatusEnum \cup {Absent} /\
        Supplied(last'.query.limit, 10) \in 1..100 /\ Supplied(last'.query.offset, 0) >= 0)
       => LET M == Matching(last'.scope, last'.query)
          IN  /\ last'.status = 200
              /\ last'.pagination.total = Cardinality(M)
              /\ Range(last'.items) \subseteq M
              /\ (Supplied(last'.query.offset, 0) = 0 /\
                  Supplied(last'.query.limit, 10) >= Cardinality(M)) => Range(last'.items) = M
              /\ (\A c \in categories : c.websiteId = last'.scope => c.slug # last'.query.category)
                    => M = Matching(last'.scope, [last'.query EXCEPT !.category = Absent])]_vars

\* a status filter together with a slug that website 1 does not have: one of
\* the two items of the website is returned
C16_Witness ==
    /\ last.op = "list"
    /\ last.status = 200
    /\ last.query.category = "zz"
    /\ last.query.status = "resolved"
    /\ last.pagination.total = 1
    /\ Len(last.items) = 1
    /\ Cardinality({f \in DOMAIN feedback : feedback[f].websiteId = 1}) = 2

\* no two websites share a domain, no two categories of a website share a slug
UniqueDomainsAndSlugs ==
    /\ \A w1, w2 \in DOMAIN websites : websites[w1].domain = websites[w2].domain => w1 = w2
    /\ \A c1, c2 \in categories : (c1.websiteId = c2.websiteId /\ c1.slug = c2.slug) => c1 = c2

\* request r is answered in this step while the domain or slug it asks for is taken
DomainTaken(r) ==
    /\ req[r].pc \in {"w_check", "w_insert"}
    /\ \E w \in DOMAIN websites : websites[w].domain = req[r].name

SlugTaken(r) ==
    /\ req[r].pc \in {"c_check", "c_insert"}
    /\ \E c \in categories : c.websiteId = req[r].wid /\ c.slug = req[r].name

\* C20: uniqueness conflicts. Registering a website whose domain is already
\* registered (public and admin creation) and creating a category whose slug
\* exists for the website are answered 409 and insert nothing, also when two
\* such requests overlap; no two websites ever share a domain and no two
\* categories of one website share a slug.
C20_UniquenessConflicts ==
    [](UniqueDomainsAndSlugs) /\
    [][\A r \in Reqs :
          (Steps(r) /\ (DomainTaken(r) \/ SlugTaken(r)))
          => (req'[r].pc = "done" /\ req'[r].status = 409 /\ UNCHANGED store)]_vars

\* every row references rows that exist: votes and comments an item; items,
\* categories and analytics events a website
NoOrphans ==
    /\ \A v \in votes : v.feedbackId \in DOMAIN feedback
    /\ \A c \in comments : c.feedbackId \in DOMAIN feedback
    /\ \A f \in DOMAIN feedback : feedback[f].websiteId \in DOMAIN websites
    /\ \A c \in categories : c.websiteId \in DOMAIN websites
    /\ \A e \in analytics : e.websiteId \in DOMAIN websites

\* C21: deletion cascades. Deleting an item through DELETE /api/feedback/{id}
\* succeeds when comments or votes reference it and leaves no row that
\* references the deleted id; deleting a website through the admin DELETE
\* succeeds and leaves no item, category or analytics row with its websiteId;
\* in every reachable state every vote and every comment references an
\* existing item.
C21_DeletionCascades ==
    [](NoOrphans) /\
    [][/\ (Handled /\ last'.op = "delete" /\ last'.status \notin {400, 401, 403, 404})
            => last'.status = 200
       /\ \A r \in Reqs : (Steps(r) /\ req[r].pc = "wd_delete") => req'[r].status = 200]_vars

\* C22: counters never negative. In every reachable state, under every
\* interleaving of overlapping castVote/removeVote requests, upvotes >= 0 and
\* downvotes >= 0 for every item.
C22_CountersNonNegative ==
    \A f \in DOMAIN feedback : feedback[f].upvotes >= 0 /\ feedback[f].downvotes >= 0

\* C26: email and IP identities are independent. A vote row created under an
\* email identity is flipped or removed only by a request that presents that
\* email; a request without an email never changes or deletes such a row, even
\* from the same IP address.
C26_IdentitiesIndependent ==
    [][\A v \in votes :
          (v.voterEmail # NoEmail /\ v \notin votes')
          => \E r \in Reqs : Steps(r) /\ req[r].email = v.voterEmail]_vars

\* C27: category ownership. Every stored item with a non-null categoryId
\* references an existing category of the item's own website.
C27_CategoryOwnership ==
    \A f \in DOMAIN feedback :
        feedback[f].categoryId # 0
        => \E c \in categories : c.id = feedback[f].categoryId /\ c.websiteId = feedback[f].websiteId

\* the reply answers a request on /api/feedback/{id} or its comments whose key
\* is present but not valid for the active owner of the item (a missing item
\* has no owner)
Unauthorized(reply) ==
    /\ reply.op \in {"get", "update", "delete", "comments", "comment"}
    /\ reply.key # NoKey
    /\ reply.wellFormed
    /\ reply.parsed
    /\ verifyApiKey(reply.scope, reply.key) = NoWebsite

\* C28: no existence leak. A request to GET/PATCH/DELETE /api/feedback/{id} or
\* to its comments with a key that is not valid for the item's active owner is
\* answered the same whether or not the item exists: two consecutive such
\* requests of one endpoint with one key get the same status and error text.
C28_NoExistenceLeak ==
    [][(Handled /\ Unauthorized(last) /\ Unauthorized(last') /\
        last'.op = last.op /\ last'.key = last.key)
       => (last'.status = last.status /\ last'.error = last.error)]_vars

\* the operations behind the admin session cookie
AdminOps == {"admin_status", "user_status", "user_delete", "website_delete", "admin_create"}

\* the cookie names a stored admin whose account is active
ActiveAdmin(session) == session \in DOMAIN admins /\ admins[session].isActive

\* the cookie of the request that slot r works on in this step
SessionOf(r) == IF Free(r) THEN req'[r].session ELSE req[r].session

\* C24: admin session guard. Every admin endpoint (feedback status update,
\* admin-user PATCH and DELETE, website create and delete) answers 401 and
\* mutates nothing when the session cookie is absent, unparseable, names an
\* admin that does not exist or names an inactive admin; a mutation occurs only
\* for a session that names an existing active admin.
C24_AdminSessionGuard ==
    [][/\ \A r \in Reqs :
            (Steps(r) /\ req'[r].op \in AdminOps /\ ~ActiveAdmin(SessionOf(r)))
            => /\ UNCHANGED store
               /\ req'[r].pc \in {"session", "done"}
               /\ req'[r].pc = "done" => req'[r].status = 401
       /\ store' # store
            => \E r \in Reqs : Steps(r) /\ req[r].op \in AdminOps /\ ActiveAdmin(req[r].session)]_vars

\* inactive admin 3 was refused the deletion of admin 1 after admin 1 had
\* deactivated the account of admin 2
C24_Witness ==
    /\ \E r \in Reqs : /\ req[r].op = "user_delete"
                       /\ req[r].pc = "done"
                       /\ req[r].session = 3
                       /\ req[r].status = 401
    /\ \E r \in Reqs : /\ req[r].op = "user_status"
                       /\ req[r].session = 1
                       /\ req[r].status = 200
    /\ 1 \in DOMAIN admins
    /\ ~admins[2].isActive

\* C29: admin lockout is impossible. An admin cannot deactivate or delete the
\* own account (400), and at least one active admin exists in every reachable
\* state, also when requests of two admins that target each other overlap.
C29_NoAdminLockout ==
    [](\E a \in DOMAIN admins : admins[a].isActive) /\
    [][\A r \in Reqs :
          (Steps(r) /\ req[r].pc = "session" /\ ActiveAdmin(req[r].session) /\
           req[r].uid = req[r].session)
          => (req'[r].pc = "done" /\ req'[r].status = 400 /\ UNCHANGED store)]_vars

\* at most one request is in flight
NonOverlapping == Cardinality({r \in Reqs : InFlight(r)}) <= 1

\* no address has more rows inside the window of a website than the website allows
WithinLimit ==
    \A w \in DOMAIN websites, p \in IPs :
        websites[w].rateLimit # NoRateLimit
        => Cardinality(RowsSince(w, p, now - websites[w].rateLimit.windowMinutes))
              <= websites[w].rateLimit.maxSubmissions

\* C23: rate-limit race. The count and the insert of a submission are separate
\* steps: as long as submissions do not overlap, the number of rows of one
\* address inside the window of a website never exceeds maxSubmissions; two
\* overlapping submissions that both count M-1 rows both insert and leave
\* more than maxSubmissions rows inside the window.
C23_RateLimitRace == [](NonOverlapping) => [](WithinLimit)

\* two overlapping submissions both counted one row inside the window of
\* website 1 (maxSubmissions 2), both were stored: three rows inside the window
C23_Witness ==
    /\ Cardinality(RowsSince(1, "p1", now - websites[1].rateLimit.windowMinutes)) = 3
    /\ websites[1].rateLimit.maxSubmissions = 2
    /\ \A r \in Reqs : req[r].op = "submit" /\ req[r].status = 201

\* the columns of a stored item
Columns == DOMAIN NewFeedbackRow(1, 0, "bug", "p1", 0)

\* item f differs between the two states of the step in at most the given columns
OnlyChanged(f, cols) == \A c \in Columns \ cols : feedback'[f][c] = feedback[f][c]

\* C25: the counters are owned by the vote ledger. A submission stores upvotes
\* and downvotes 0 whatever its payload; they change only in castVote and
\* removeVote; PATCH /api/feedback/{id} changes at most status, priority and
\* isPublic (and updatedAt), the admin status update at most status (and
\* updatedAt); websiteId never changes.
C25_CountersOwnedByVotes ==
    [][/\ \A f \in DOMAIN feedback' \ DOMAIN feedback :
              feedback'[f].upvotes = 0 /\ feedback'[f].downvotes = 0
       /\ \A f \in DOMAIN feedback \cap DOMAIN feedback' :
              /\ feedback'[f].websiteId = feedback[f].websiteId
              /\ ~OnlyChanged(f, Columns \ {"upvotes", "downvotes"})
                    => \E r \in Reqs : /\ Steps(r)
                                       /\ req[r].pc \in {"flip_count", "new_count", "del_count"}
                                       /\ req[r].fid = f
              /\ (Handled /\ last'.op = "update") => OnlyChanged(f, {"status", "priority", "isPublic"})
              /\ (\E r \in Reqs : Steps(r) /\ req[r].pc = "as_update") => OnlyChanged(f, {"status"})]_vars

\* item 1 carries the counters of its one up vote after a PATCH whose body
\* named upvotes 5 and websiteId 2 set its status
C25_Witness ==
    /\ last.op = "update"
    /\ last.status = 200
    /\ feedback[1].status = "resolved"
    /\ feedback[1].upvotes = 1
    /\ feedback[1].downvotes = 0
    /\ feedback[1].websiteId = 1

\* the items of a reply are in ascending (descending) order of creation
Ascending(items) ==
    \A i, j \in 1..Len(items) : i < j => feedback[items[i]].createdAt <= feedback[items[j]].createdAt

Descending(items) ==
    \A i, j \in 1..Len(items) : i < j => feedback[items[i]].createdAt >= feedback[items[j]].createdAt

\* C30: getPublicFeedback(websiteId, options) returns the same sequence of ids
\* as GET /api/feedback with public=true for the same type, category slug,
\* limit, offset and sort in {newest, oldest, upvotes}: a call that follows the
\* list request with its options returns the items of that response; 'oldest'
\* yields ascending and 'newest' descending creation order.
C30_PublicFeedbackAgrees ==
    [][(last'.op = "public" /\ last' # last)
       => /\ (/\ last.op = "list"
              /\ last.status = 200
              /\ last.scope = last'.scope
              /\ last.query = [last'.query EXCEPT !.public = "true"])
             => last'.items = last.items
          /\ last'.query.sort = "oldest" => Ascending(last'.items)
          /\ last'.query.sort = "newest" => Descending(last'.items)]_vars

====
